---- MODULE Spec2Model ----
(***************************************************************************)
(* Tachiyomi-TUI: the two-tier page cache (src/backend/cache.rs) and the   *)
(* background-task / event-loop layer (src/main.rs, src/ui/ui.rs).         *)
(*                                                                         *)
(* SpecCache   : the page cache driven by arbitrary callers.               *)
(* SpecPut     : the same with a disk that never fails.                    *)
(* SpecDisk    : writes of large files, which make the cleanup run.        *)
(* SpecReader  : the event loop in the Reader view, with its tasks.        *)
(* SpecLoader  : the Reader read forwards, with a disk cache that fails.   *)
(* SpecPreload : the preload chain of a five-page chapter.                 *)
(* SpecSearch  : the Search tab and its debounce timer.                    *)
(***************************************************************************)
EXTENDS Integers, Sequences, FiniteSets, Bags, TLC

VARIABLES
    pages,          \* PageCacheInner.pages : resident url -> image
    access_order,   \* PageCacheInner.access_order : Vec<String>, oldest first
    disk,           \* the files of cache_dir, ordered by modification time
    touched,        \* history: urls in the order of their last touch
    lastPut,        \* history: url -> the image of its last insert_page
    last,           \* history: what the last cache call did
    chapter_urls,   \* PageCacheInner.chapter_urls : chapter id -> page urls
    view,           \* App.view
    reader,         \* App.reader : ReaderState
    picker,         \* App.picker is Some
    preloading_pages, \* run_app's preloading_pages
    search,         \* App: tab, focus, the search fields; pending_covers
    app,            \* App: the fields of the Home tab and of MangaDetail
    tasks,          \* the spawned tasks that have not finished, a bag
    chan,           \* the unbounded channel of BackgroundTask events
    done,           \* history: the page, search or cover task finished last
    seen,           \* history: what preloading has been scheduled, consumed
    typing,         \* history: the current burst of keystrokes
    nav             \* history: the key pressed last, the chapters resolved,
                    \*          whether a reading session was left for Home

cacheVars == <<pages, access_order, disk, chapter_urls>>
histVars  == <<touched, lastPut, last>>
loopVars  == <<view, reader, picker, preloading_pages, search, app, tasks,
               chan>>
obsVars   == <<done, seen, typing, nav>>
vars      == <<pages, access_order, disk, touched, lastPut, last, chapter_urls,
               view, reader, picker, preloading_pages, search, app, tasks,
               chan, done, seen, typing, nav>>

\* Option::None for an image and for a url; the content of a file whose bytes
\* do not decode.
NoImage == -1
NoUrl   == << >>
Corrupt == -2

(***************************************************************************)
(* Bounds and program constants.                                           *)
(***************************************************************************)
\* cache.rs:9 sets 50; the model keeps the comparison and scales the
\* capacity to its universe of urls.
MAX_MEMORY_PAGES == 2
MAX_DISK_CACHE_MB == 500
MB == 1024 * 1024

\* Urls are byte strings. "aa" = <<97,97>> and "Bb" = <<66,98>> have the
\* same md5_hash; "c" and "d" do not collide with anything.
Urls == {<<97, 97>>, <<66, 98>>, <<99>>, <<100>>}

\* A decoded image, abstracted to one sample value.
Images == {0, 1}

\* Lengths an encoded page file can have on disk.
FileSizes == {200 * MB, 300 * MB}

(***************************************************************************)
(* Pure helpers.                                                           *)
(***************************************************************************)
RECURSIVE Pow31(_)
Pow31(i) == IF i = 0 THEN 1 ELSE 31 * Pow31(i - 1)

\* hash = sum of byte[i] * 31^i with wrapping u128 arithmetic; for the urls
\* of the model the sum stays far below 2^128, so no wrap-around occurs.
RECURSIVE HashFrom(_, _)
HashFrom(s, i) ==
    IF i > Len(s) THEN 0 ELSE s[i] * Pow31(i - 1) + HashFrom(s, i + 1)

md5_hash(s) == HashFrom(s, 1)

\* cache_dir.join(format!("{:x}", hash)): hex formatting is injective, so the
\* file is named by the hash itself.
url_to_filename(url) == md5_hash(url)

\* What decoding a JPEG encoding of an image gives back: JPEG quantises, the
\* odd sample is lost.
JpegRoundTrip(image) == image - (image % 2)

Retain(seq, url) == SelectSeq(seq, LAMBDA k : k # url)

RECURSIVE SumLen(_)
SumLen(files) ==
    IF files = <<>> THEN 0 ELSE Head(files).len + SumLen(Tail(files))

FileNames(files) == {files[i].name : i \in 1..Len(files)}

max_bytes == MAX_DISK_CACHE_MB * 1024 * 1024

\* max_bytes * 80 / 100 in u64; split so that no intermediate value exceeds
\* the checker's 32-bit integers (the value is the same).
Threshold == (max_bytes \div 100) * 80 + ((max_bytes % 100) * 80) \div 100

(***************************************************************************)
(* PageCacheInner::insert_memory                                           *)
(***************************************************************************)
EvictsOnInsertOffByOne(pg) == Cardinality(DOMAIN pg) > MAX_MEMORY_PAGES

EvictsOnInsert(pg) == Cardinality(DOMAIN pg) >= MAX_MEMORY_PAGES

InsertMemory(pg, ao, url, image) ==
    LET evict  == EvictsOnInsert(pg) /\ ao # <<>>
        oldest == IF evict THEN Head(ao) ELSE NoUrl
        pg1    == IF evict THEN [k \in DOMAIN pg \ {oldest} |-> pg[k]] ELSE pg
        ao1    == IF evict THEN Tail(ao) ELSE ao
    IN  [pages        |-> [k \in DOMAIN pg1 \cup {url} |->
                              IF k = url THEN image ELSE pg1[k]],
         access_order |-> Append(Retain(ao1, url), url),
         evicted      |-> oldest]

(***************************************************************************)
(* PageCacheInner::load_from_disk                                          *)
(***************************************************************************)
\* load_from_disk without its .ok()? exits: whatever the file holds.
LoadFromDiskUnchecked(files, url, readOk) ==
    LET idx == {i \in 1..Len(files) : files[i].name = url_to_filename(url)}
    IN  IF idx = {} THEN NoImage ELSE files[CHOOSE i \in idx : TRUE].data

\* readOk: fs::read succeeds. A file whose bytes do not decode gives None.
LoadFromDisk(files, url, readOk) ==
    LET idx == {i \in 1..Len(files) : files[i].name = url_to_filename(url)}
    IN  IF idx = {} \/ ~readOk THEN NoImage
        ELSE LET f == files[CHOOSE i \in idx : TRUE]
             IN  IF f.data = Corrupt THEN NoImage ELSE f.data

(***************************************************************************)
(* PageCacheInner::cleanup_old_cache                                       *)
(* unreadable: names whose metadata cannot be read (left out of entries);  *)
(* undeletable: names whose remove_file fails.                             *)
(***************************************************************************)
CleanupStopsAtBudget(current_size) == current_size <= max_bytes

CleanupStops(current_size) == current_size <= Threshold

\* The for loop over the entries sorted by modification time: the set of
\* names it removes.
RECURSIVE Sweep(_, _, _)
Sweep(entries, current_size, undeletable) ==
    IF entries = <<>> \/ CleanupStops(current_size) THEN {}
    ELSE IF Head(entries).name \in undeletable
         THEN Sweep(Tail(entries), current_size, undeletable)
         ELSE {Head(entries).name}
              \cup Sweep(Tail(entries), current_size - Head(entries).len,
                         undeletable)

\* A cleanup that sweeps down to the threshold whatever the total is.
CleanupOldCacheAlways(files, unreadable, undeletable) ==
    LET entries == SelectSeq(files, LAMBDA f : f.name \notin unreadable)
        removed == Sweep(entries, SumLen(entries), undeletable)
    IN  SelectSeq(files, LAMBDA f : f.name \notin removed)

CleanupOldCache(files, unreadable, undeletable) ==
    LET entries    == SelectSeq(files, LAMBDA f : f.name \notin unreadable)
        total_size == SumLen(entries)
        removed    == IF total_size > max_bytes
                      THEN Sweep(entries, total_size, undeletable)
                      ELSE {}
    IN  SelectSeq(files, LAMBDA f : f.name \notin removed)

(***************************************************************************)
(* PageCacheInner::save_to_disk                                            *)
(* outcome: "nocreate" File::create fails; "partial" the file is created   *)
(* and write_to fails; "ok" the JPEG is written. len: the file's length.   *)
(***************************************************************************)
WriteOutcomes == {"ok", "partial", "nocreate"}

\* A save_to_disk that writes without the cleanup before it.
SaveToDiskUnswept(files, url, image, outcome, len, unreadable, undeletable) ==
    LET name == url_to_filename(url)
        rest == SelectSeq(files, LAMBDA f : f.name # name)
    IN  IF outcome = "nocreate" THEN files
        ELSE Append(rest,
                    [name |-> name,
                     data |-> IF outcome = "ok" THEN JpegRoundTrip(image)
                              ELSE Corrupt,
                     len  |-> len])

SaveToDisk(files, url, image, outcome, len, unreadable, undeletable) ==
    LET swept == CleanupOldCache(files, unreadable, undeletable)
        name  == url_to_filename(url)
        rest  == SelectSeq(swept, LAMBDA f : f.name # name)
    IN  IF outcome = "nocreate" THEN swept
        ELSE Append(rest,
                    [name |-> name,
                     data |-> IF outcome = "ok" THEN JpegRoundTrip(image)
                              ELSE Corrupt,
                     len  |-> len])

(***************************************************************************)
(* PageCache::get_page, under the write lock                               *)
(***************************************************************************)
\* A memory hit moves the url to the most recent end (retain, then push).
BumpForgotten(ao, url) == ao

\* A memory hit that pushes the url without the retain before it.
BumpUnretained(ao, url) == Append(ao, url)

Bump(ao, url) == Append(Retain(ao, url), url)

\* A get_page whose disk hit is returned and not kept in memory.
GetPageResultUnpromoted(pg, ao, files, url, readOk) ==
    IF url \in DOMAIN pg
    THEN [pages |-> pg, access_order |-> Bump(ao, url),
          evicted |-> NoUrl, ret |-> pg[url], from |-> "memory"]
    ELSE LET image == LoadFromDisk(files, url, readOk)
         IN  [pages |-> pg, access_order |-> ao, evicted |-> NoUrl,
              ret |-> image,
              from |-> IF image # NoImage THEN "disk" ELSE "miss"]

GetPageResult(pg, ao, files, url, readOk) ==
    IF url \in DOMAIN pg
    THEN [pages |-> pg, access_order |-> Bump(ao, url),
          evicted |-> NoUrl, ret |-> pg[url], from |-> "memory"]
    ELSE LET image == LoadFromDisk(files, url, readOk)
         IN  IF image # NoImage
             THEN LET m == InsertMemory(pg, ao, url, image)
                  IN  [pages |-> m.pages, access_order |-> m.access_order,
                       evicted |-> m.evicted, ret |-> image, from |-> "disk"]
             ELSE [pages |-> pg, access_order |-> ao,
                   evicted |-> NoUrl, ret |-> NoImage, from |-> "miss"]

\* A touch in the history: the url moves to the most recent end.
Touch(order, url) == Append(Retain(order, url), url)

\* The names whose remove_file the sweep called and saw fail.
RECURSIVE SweepFailed(_, _, _)
SweepFailed(entries, current_size, undeletable) ==
    IF entries = <<>> \/ CleanupStops(current_size) THEN {}
    ELSE IF Head(entries).name \in undeletable
         THEN {Head(entries).name}
              \cup SweepFailed(Tail(entries), current_size, undeletable)
         ELSE SweepFailed(Tail(entries), current_size - Head(entries).len,
                          undeletable)

\* What the cleanup of one save_to_disk met: over, the directory held more
\* than the budget; settled, what it left is at most 80% of the budget;
\* clean, every metadata read and every remove_file it made succeeded;
\* removals, every remove_file it called succeeded.
SweepReport(files, unreadable, undeletable) ==
    LET entries == SelectSeq(files, LAMBDA f : f.name \notin unreadable)
    IN  [over     |-> SumLen(files) > max_bytes,
         settled  |-> SumLen(CleanupOldCache(files, unreadable, undeletable))
                          <= Threshold,
         clean    |-> /\ unreadable = {}
                      /\ SweepFailed(files, SumLen(files), undeletable) = {},
         removals |-> \/ SumLen(entries) <= max_bytes
                      \/ SweepFailed(entries, SumLen(entries),
                                     undeletable) = {}]

NoSweep == [over |-> FALSE, settled |-> TRUE, clean |-> TRUE,
            removals |-> TRUE]

GetPage(url, readOk) ==
    LET r == GetPageResult(pages, access_order, disk, url, readOk)
    IN  /\ pages' = r.pages
        /\ access_order' = r.access_order
        /\ disk' = disk
        /\ last' = [op |-> "get_page", url |-> url, ret |-> r.ret,
                    from |-> r.from, evicted |-> r.evicted, sweep |-> NoSweep]

(***************************************************************************)
(* PageCache::insert_page, under the write lock                            *)
(***************************************************************************)
InsertPageResult(pg, ao, files, url, image, outcome, len, unr, und) ==
    LET saved == SaveToDisk(files, url, image, outcome, len, unr, und)
        m     == InsertMemory(pg, ao, url, image)
    IN  [pages |-> m.pages, access_order |-> m.access_order, disk |-> saved,
         evicted |-> m.evicted]

InsertPage(url, image, outcome, len, unreadable, undeletable) ==
    LET m == InsertPageResult(pages, access_order, disk, url, image, outcome,
                              len, unreadable, undeletable)
    IN  /\ disk' = m.disk
        /\ pages' = m.pages
        /\ access_order' = m.access_order
        /\ last' = [op |-> "insert_page", url |-> url, ret |-> NoImage,
                    from |-> outcome, evicted |-> m.evicted,
                    sweep |-> SweepReport(disk, unreadable, undeletable)]

(***************************************************************************)
(* PageCache::has_page, get_chapter_urls, insert_chapter_urls              *)
(***************************************************************************)
HasPage(pg, files, url) ==
    url \in DOMAIN pg \/ url_to_filename(url) \in FileNames(files)

GetChapterUrls(cu, chapter_id) ==
    IF chapter_id \in DOMAIN cu THEN cu[chapter_id] ELSE << >>

HasChapterUrls(cu, chapter_id) == chapter_id \in DOMAIN cu

InsertChapterUrls(cu, chapter_id, urls) ==
    [c \in DOMAIN cu \cup {chapter_id} |->
        IF c = chapter_id THEN urls ELSE cu[c]]

(***************************************************************************)
(* App state of the Reader (src/ui/ui.rs)                                  *)
(***************************************************************************)
\* reader.error: None, or one of the two messages of run_app.
NoError    == ""
PagesError == "Failed to load chapter pages. Press 'r' to retry."
ImageError == "Failed to load page image. Press 'r' to retry."

NewReader ==
    [chapters |-> << >>, current_chapter_idx |-> 0, page_urls |-> << >>,
     current_page |-> 0, page_image |-> NoImage, loading |-> FALSE,
     error |-> NoError]

\* An open_reader that always starts at the first chapter of the list.
open_readerAtFirstChapter(r, chapters, chapter_idx) ==
    [r EXCEPT !.current_chapter_idx = 0, !.chapters = chapters,
              !.current_page = 0, !.page_urls = << >>,
              !.page_image = NoImage, !.loading = TRUE]

open_reader(r, chapters, chapter_idx) ==
    [r EXCEPT !.current_chapter_idx = chapter_idx, !.chapters = chapters,
              !.current_page = 0, !.page_urls = << >>,
              !.page_image = NoImage, !.loading = TRUE]

set_page_image(r, image, pk) ==
    [r EXCEPT !.page_image = IF pk THEN image ELSE @,
              !.loading = FALSE, !.error = NoError]

set_page_load_error(r, error) ==
    [r EXCEPT !.loading = FALSE, !.error = error]

CanNextPage(r) == r.current_page + 1 < Len(r.page_urls)

next_page(r) ==
    IF CanNextPage(r)
    THEN [r EXCEPT !.current_page = @ + 1, !.loading = TRUE,
                   !.page_image = NoImage, !.error = NoError]
    ELSE r

CanPrevPage(r) == r.current_page > 0

prev_page(r) ==
    IF CanPrevPage(r)
    THEN [r EXCEPT !.current_page = @ - 1, !.loading = TRUE,
                   !.page_image = NoImage, !.error = NoError]
    ELSE r

\* A bound that lets the reader step beyond the last chapter.
CanNextChapterOffByOne(r) == r.current_chapter_idx < Len(r.chapters)

CanNextChapter(r) == r.current_chapter_idx + 1 < Len(r.chapters)

next_chapter(r) ==
    IF CanNextChapter(r)
    THEN [r EXCEPT !.current_chapter_idx = @ + 1, !.current_page = 0,
                   !.page_urls = << >>, !.page_image = NoImage,
                   !.loading = TRUE, !.error = NoError]
    ELSE r

CanPrevChapter(r) == r.current_chapter_idx > 0

prev_chapter(r) ==
    IF CanPrevChapter(r)
    THEN [r EXCEPT !.current_chapter_idx = @ - 1, !.current_page = 0,
                   !.page_urls = << >>, !.page_image = NoImage,
                   !.loading = TRUE, !.error = NoError]
    ELSE r

\* slice.get(i) on a 0-based index: whether it is Some.
HasIndex(seq, i) == i + 1 <= Len(seq)

(***************************************************************************)
(* The remote catalog, as the tasks see it.                                *)
(***************************************************************************)
Manga == <<109>>

ShortChapter == <<49>>
LongChapter  == <<50>>

\* The chapters of Manga: two hosted chapters, of two pages and of one page,
\* and a chapter hosted elsewhere (external_url is Some), which has no pages
\* on the at-home server.
FirstChapter    == <<51>>
SecondChapter   == <<52>>
ExternalChapter == <<53>>

\* The data-saver page urls the at-home server lists for a chapter.
PagesOf(chapter_id) ==
    IF chapter_id = LongChapter
    THEN << <<97>>, <<98>>, <<99>>, <<100>>, <<101>> >>
    ELSE IF chapter_id = FirstChapter THEN << <<97>>, <<98>> >>
    ELSE IF chapter_id = SecondChapter THEN << <<99>> >>
    ELSE IF chapter_id = ExternalChapter THEN << >>
    ELSE << <<97>>, <<98>>, <<99>> >>

\* What get_chapter_pages can answer: the list, an empty list, or None.
NoAnswer == << <<0>> >>
PageAnswers(chapter_id) == {PagesOf(chapter_id), << >>, NoAnswer}

\* The image fetch_page_image decodes from a url: one per url, and one that
\* JPEG does not keep exactly.
PageImageOf(url) == 2 * md5_hash(url) + 1

(***************************************************************************)
(* Tasks and events (src/main.rs)                                          *)
(***************************************************************************)
\* A spawned task: where it stands, the attempts it has made, and the
\* milliseconds it has slept between them.
Task(kind, key) ==
    [kind |-> kind, key |-> key, pc |-> "start", attempt |-> 0, slept |-> 0]

Event(kind, key, image, list) ==
    [kind |-> kind, key |-> key, image |-> image, list |-> list]

Spawn(kind, key) == SetToBag({Task(kind, key)})

MAX_RETRIES == 3
RETRY_DELAY_MS == 500
PRELOAD_AHEAD == 3
DEBOUNCE_MS == 300
SLEEP_MS == 50
COVERS_AHEAD == 6

\* page_urls.iter().skip(current_page + 1).take(PRELOAD_AHEAD)
UpcomingFromCurrent(page_urls, current_page) ==
    SubSeq(page_urls, current_page + 1,
           IF current_page + PRELOAD_AHEAD < Len(page_urls)
           THEN current_page + PRELOAD_AHEAD ELSE Len(page_urls))

\* A window that takes one url more than PRELOAD_AHEAD.
UpcomingOneMore(page_urls, current_page) ==
    SubSeq(page_urls, current_page + 2,
           IF current_page + 2 + PRELOAD_AHEAD < Len(page_urls)
           THEN current_page + 2 + PRELOAD_AHEAD ELSE Len(page_urls))

Upcoming(page_urls, current_page) ==
    SubSeq(page_urls, current_page + 2,
           IF current_page + 1 + PRELOAD_AHEAD < Len(page_urls)
           THEN current_page + 1 + PRELOAD_AHEAD ELSE Len(page_urls))

\* A loop that does not look whether the url is pending.
RECURSIVE ScheduleRegardless(_, _)
ScheduleRegardless(window, preloading) ==
    IF window = << >> THEN [preloading |-> preloading, spawned |-> EmptyBag]
    ELSE LET rest == ScheduleRegardless(Tail(window),
                                        preloading \cup {Head(window)})
         IN  [preloading |-> rest.preloading,
              spawned    |-> rest.spawned (+) Spawn("preload", Head(window))]

\* The loop of preload_upcoming_pages over the window.
RECURSIVE Schedule(_, _)
Schedule(window, preloading) ==
    IF window = << >> THEN [preloading |-> preloading, spawned |-> EmptyBag]
    ELSE IF Head(window) \in preloading
         THEN Schedule(Tail(window), preloading)
         ELSE LET rest == Schedule(Tail(window),
                                   preloading \cup {Head(window)})
              IN  [preloading |-> rest.preloading,
                   spawned    |-> rest.spawned (+) Spawn("preload",
                                                         Head(window))]

\* A scheduler that spawns the preloaders and forgets to mark their urls.
preload_upcoming_pagesUnmarked(page_urls, current_page, preloading) ==
    [Schedule(Upcoming(page_urls, current_page), preloading)
        EXCEPT !.preloading = preloading]

preload_upcoming_pages(page_urls, current_page, preloading) ==
    Schedule(Upcoming(page_urls, current_page), preloading)

\* iter().position(|u| u == page_url), 0-based; -1 for None.
Position(page_urls, page_url) ==
    LET idx == {i \in 1..Len(page_urls) : page_urls[i] = page_url}
    IN  IF idx = {} THEN -1
        ELSE (CHOOSE i \in idx : \A j \in idx : i <= j) - 1

(***************************************************************************)
(* History of the tasks and of the loop, kept for the claims: done is the  *)
(* task that finished last, with the events it sent; seen is the kind of   *)
(* the last event the loop consumed ("key" after a key press), the urls a  *)
(* preloader was ever spawned for and the urls whose PagePreloaded was     *)
(* consumed.                                                               *)
(***************************************************************************)
NoTask == [kind |-> "none", hit |-> FALSE, attempts |-> 0,
           fetched |-> FALSE, events |-> << >>]

NothingSeen == [event |-> "none", scheduled |-> {}, preloaded |-> {}]

Finished(t, hit, attempts, fetched, events) ==
    [kind |-> t.kind, hit |-> hit, attempts |-> attempts,
     fetched |-> fetched, events |-> events]

PreloadKeys(bag) == {t.key : t \in {x \in BagToSet(bag) : x.kind = "preload"}}

NothingTyped == [phase |-> "idle", quiet |-> DEBOUNCE_MS, pure |-> FALSE,
                 before |-> << >>, sent |-> << >>]

\* search_debounce: None, or the milliseconds elapsed since the Instant,
\* counted up to DEBOUNCE_MS.
NoInstant == -1

NewSearch ==
    [tab |-> "Home", focus |-> "Header", search_query |-> << >>,
     search_results |-> << >>, search_offset |-> 0, searching |-> FALSE,
     last_search_query |-> << >>, search_debounce |-> NoInstant,
     cover_images |-> {}, pending_covers |-> {}]

\* App::new, as far as the Home tab and MangaDetail go.
NewApp ==
    [recently_updated |-> << >>, recent_offset |-> 0,
     selected_manga |-> NoUrl, chapters |-> << >>, chapter_selected |-> 0,
     chapter_grid_cols |-> 1, chapter_thumbnails |-> {}]

NoKey == [key |-> "none", home |-> FALSE, once |-> {}, again |-> {}]

IdleLoop ==
    /\ search = NewSearch
    /\ app = NewApp
    /\ nav = NoKey
    /\ typing = NothingTyped
    /\ chapter_urls = << >>
    /\ view = "Home"
    /\ reader = NewReader
    /\ picker = TRUE
    /\ preloading_pages = {}
    /\ tasks = EmptyBag
    /\ chan = << >>
    /\ done = NoTask
    /\ seen = NothingSeen

(***************************************************************************)
(* History of the cache calls, kept beside the cache for the claims:       *)
(* touched lists the resident urls by the time of their last touch (a      *)
(* get_page that returned the image, or an insert_page), lastPut the image *)
(* each url was last inserted with.                                        *)
(***************************************************************************)
Resident(order, pg) == SelectSeq(order, LAMBDA k : k \in DOMAIN pg)

RecordTouch(url) ==
    touched' = Resident(IF last'.op = "insert_page" \/ last'.ret # NoImage
                        THEN Touch(touched, url) ELSE touched, pages')

InitCache ==
    /\ pages = << >>
    /\ access_order = << >>
    /\ disk = << >>
    /\ touched = << >>
    /\ lastPut = [u \in Urls |-> NoImage]
    /\ last = [op |-> "new", url |-> NoUrl, ret |-> NoImage, from |-> "new",
               evicted |-> NoUrl, sweep |-> NoSweep]
    /\ IdleLoop

(***************************************************************************)
(* SpecCache: any caller, any url, any image, writes and reads that may    *)
(* fail; page files are small, so the directory stays under its budget.    *)
(***************************************************************************)
SmallFile == 2 * MB

CallGetPage ==
    \E url \in Urls, readOk \in BOOLEAN :
        /\ GetPage(url, readOk)
        /\ RecordTouch(url)
        /\ UNCHANGED <<lastPut, chapter_urls, loopVars, obsVars>>

CallInsertPage ==
    \E url \in Urls, image \in Images, outcome \in WriteOutcomes :
        /\ InsertPage(url, image, outcome, SmallFile, {}, {})
        /\ RecordTouch(url)
        /\ UNCHANGED <<lastPut, chapter_urls, loopVars, obsVars>>

NextCache == CallGetPage \/ CallInsertPage

SpecCache == InitCache /\ [][NextCache]_vars

(***************************************************************************)
(* SpecPut: a disk that never fails and images that JPEG encodes without   *)
(* loss, with the image of every insert_page remembered.                   *)
(***************************************************************************)
ExactImages == {0, 2}

PutPage ==
    \E url \in Urls, image \in ExactImages :
        /\ InsertPage(url, image, "ok", SmallFile, {}, {})
        /\ lastPut' = [lastPut EXCEPT ![url] = image]
        /\ UNCHANGED <<touched, chapter_urls, loopVars, obsVars>>

FetchPage ==
    \E url \in Urls :
        /\ GetPage(url, TRUE)
        /\ UNCHANGED <<touched, lastPut, chapter_urls, loopVars, obsVars>>

NextPut == PutPage \/ FetchPage

SpecPut == InitCache /\ [][NextPut]_vars

(***************************************************************************)
(* SpecDisk: writes of large page files, with metadata reads and removals  *)
(* that may fail, so that the cleanup runs. A write that fails part-way    *)
(* leaves a file like any other as far as the cleanup goes.                *)
(***************************************************************************)
DiskUrls == {u \in Urls : \A w \in Urls : md5_hash(w) = md5_hash(u) => w = u}
            \cup {<<97, 97>>}

WriteLarge ==
    \E url \in DiskUrls, outcome \in {"ok", "nocreate"}, len \in FileSizes :
        \E unreadable \in SUBSET FileNames(disk) :
            \E undeletable \in SUBSET (FileNames(disk) \ unreadable) :
                /\ InsertPage(url, 0, outcome, len, unreadable, undeletable)
                /\ UNCHANGED <<touched, lastPut, chapter_urls, loopVars,
                               obsVars>>

NextDisk == WriteLarge

SpecDisk == InitCache /\ [][NextDisk]_vars

(***************************************************************************)
(* The background tasks of src/main.rs.  A task is a record in the bag     *)
(* tasks from its tokio::spawn until its closure returns; each action is   *)
(* the code between two awaits of the closure.                             *)
(***************************************************************************)
Replace(bag, t, t2) == (bag (-) SetToBag({t})) (+) SetToBag({t2})

Remove(bag, t) == bag (-) SetToBag({t})

\* for attempt in 0..MAX_RETRIES: whether the loop runs again after attempt.
\* A delay that does not grow with the attempt.
RetryDelayFlat(attempt) == RETRY_DELAY_MS

\* let delay = 500 * (attempt as u64 + 1)
RetryDelay(attempt) == RETRY_DELAY_MS * (attempt + 1)

MoreAttemptsOneTooMany(attempt) == attempt < MAX_RETRIES

MoreAttempts(attempt) == attempt + 1 < MAX_RETRIES

\* A page list loader that keeps the cache locked from its lookup to its
\* insert: the lookup, the request and the insert are one step.
PageUrlsLoaderUnderOneLock(t, answer) ==
    /\ t.kind = "page_urls"
    /\ t.pc = "start"
    /\ tasks' = Remove(tasks, t)
    /\ IF HasChapterUrls(chapter_urls, t.key)
       THEN /\ chan' = Append(chan, Event("PageUrlsLoaded", t.key,
                        NoImage, GetChapterUrls(chapter_urls, t.key)))
            /\ done' = Finished(t, TRUE, 0, FALSE, <<"PageUrlsLoaded">>)
            /\ UNCHANGED chapter_urls
       ELSE IF answer # NoAnswer /\ answer # << >>
       THEN /\ chapter_urls' = InsertChapterUrls(chapter_urls, t.key, answer)
            /\ chan' = Append(chan, Event("PageUrlsLoaded", t.key,
                                          NoImage, answer))
            /\ done' = Finished(t, FALSE, 1, TRUE, <<"PageUrlsLoaded">>)
       ELSE /\ chan' = Append(chan, Event("PageUrlsLoadFailed", t.key,
                                          NoImage, << >>))
            /\ done' = Finished(t, FALSE, 1, FALSE, <<"PageUrlsLoadFailed">>)
            /\ UNCHANGED chapter_urls
    /\ UNCHANGED <<pages, access_order, disk>>

\* spawn_page_urls_loader
PageUrlsLoader(t, answer) ==
    /\ t.kind = "page_urls"
    /\ \/ /\ t.pc = "start"
          /\ IF HasChapterUrls(chapter_urls, t.key)
             THEN /\ chan' = Append(chan, Event("PageUrlsLoaded", t.key,
                              NoImage, GetChapterUrls(chapter_urls, t.key)))
                  /\ tasks' = Remove(tasks, t)
                  /\ done' = Finished(t, TRUE, 0, FALSE,
                                      <<"PageUrlsLoaded">>)
             ELSE /\ tasks' = Replace(tasks, t, [t EXCEPT !.pc = "fetch"])
                  /\ UNCHANGED <<chan, done>>
          /\ UNCHANGED chapter_urls
       \/ /\ t.pc = "fetch"
          /\ tasks' = Remove(tasks, t)
          /\ IF answer # NoAnswer /\ answer # << >>
             THEN /\ chapter_urls' =
                        InsertChapterUrls(chapter_urls, t.key, answer)
                  /\ chan' = Append(chan, Event("PageUrlsLoaded", t.key,
                                                NoImage, answer))
                  /\ done' = Finished(t, FALSE, 1, TRUE,
                                      <<"PageUrlsLoaded">>)
             ELSE /\ chan' = Append(chan, Event("PageUrlsLoadFailed", t.key,
                                                NoImage, << >>))
                  /\ done' = Finished(t, FALSE, 1, FALSE,
                                      <<"PageUrlsLoadFailed">>)
                  /\ UNCHANGED chapter_urls
    /\ UNCHANGED <<pages, access_order, disk>>

\* spawn_page_image_loader
PageImageLoader(t, readOk, fetched, outcome) ==
    /\ t.kind = "page_image"
    /\ \/ /\ t.pc = "start"
          /\ LET g == GetPageResult(pages, access_order, disk, t.key, readOk)
             IN  /\ pages' = g.pages
                 /\ access_order' = g.access_order
                 /\ IF g.ret # NoImage
                    THEN /\ chan' = Append(chan, Event("PageImageLoaded",
                                            t.key, g.ret, << >>))
                         /\ tasks' = Remove(tasks, t)
                         /\ done' = Finished(t, TRUE, 0, FALSE,
                                             <<"PageImageLoaded">>)
                    ELSE /\ tasks' = Replace(tasks, t,
                                             [t EXCEPT !.pc = "fetch"])
                         /\ UNCHANGED <<chan, done>>
          /\ UNCHANGED disk
       \/ /\ t.pc = "fetch"
          /\ IF fetched
             THEN LET m == InsertPageResult(pages, access_order, disk, t.key,
                               PageImageOf(t.key), outcome, SmallFile, {}, {})
                  IN  /\ pages' = m.pages
                      /\ access_order' = m.access_order
                      /\ disk' = m.disk
                      /\ chan' = Append(chan, Event("PageImageLoaded", t.key,
                                            PageImageOf(t.key), << >>))
                      /\ tasks' = Remove(tasks, t)
                      /\ done' = Finished(t, FALSE, t.attempt + 1, TRUE,
                                          <<"PageImageLoaded">>)
             ELSE /\ IF MoreAttempts(t.attempt)
                     THEN /\ tasks' = Replace(tasks, t,
                                   [t EXCEPT !.attempt = @ + 1,
                                             !.slept = @ + RetryDelay(
                                                             t.attempt)])
                          /\ UNCHANGED <<chan, done>>
                     ELSE /\ chan' = Append(chan, Event("PageImageLoadFailed",
                                            t.key, NoImage, << >>))
                          /\ tasks' = Remove(tasks, t)
                          /\ done' = Finished(t, FALSE, t.attempt + 1, FALSE,
                                              <<"PageImageLoadFailed">>)
                  /\ UNCHANGED <<pages, access_order, disk>>
    /\ UNCHANGED chapter_urls

\* spawn_page_preloader
PagePreloader(t, fetched, outcome) ==
    /\ t.kind = "preload"
    /\ \/ /\ t.pc = "start"
          /\ IF HasPage(pages, disk, t.key)
             THEN /\ chan' = Append(chan, Event("PagePreloaded", t.key,
                                                NoImage, << >>))
                  /\ tasks' = Remove(tasks, t)
                  /\ done' = Finished(t, TRUE, 0, FALSE, <<"PagePreloaded">>)
             ELSE /\ tasks' = Replace(tasks, t, [t EXCEPT !.pc = "fetch"])
                  /\ UNCHANGED <<chan, done>>
          /\ UNCHANGED <<pages, access_order, disk>>
       \/ /\ t.pc = "fetch"
          /\ tasks' = Remove(tasks, t)
          /\ IF fetched
             THEN LET m == InsertPageResult(pages, access_order, disk, t.key,
                               PageImageOf(t.key), outcome, SmallFile, {}, {})
                  IN  /\ pages' = m.pages
                      /\ access_order' = m.access_order
                      /\ disk' = m.disk
                      /\ chan' = Append(chan, Event("PagePreloaded", t.key,
                                                    NoImage, << >>))
                      /\ done' = Finished(t, FALSE, 1, TRUE,
                                          <<"PagePreloaded">>)
             ELSE /\ done' = Finished(t, FALSE, 1, FALSE, << >>)
                  /\ UNCHANGED <<pages, access_order, disk, chan>>
    /\ UNCHANGED chapter_urls

\* A search task that, like the other loaders, sends nothing on an error.
SearchTaskSilentOnError(t, answer) ==
    /\ t.kind = "search"
    /\ chan' = IF answer = NoAnswer THEN chan
               ELSE Append(chan, Event("SearchResults", << >>, NoImage,
                                       answer))
    /\ tasks' = Remove(tasks, t)
    /\ done' = Finished(t, FALSE, 1, answer # NoAnswer, <<"SearchResults">>)
    /\ UNCHANGED cacheVars

\* spawn_search: errors of search_manga collapse to an empty result list.
SearchTask(t, answer) ==
    /\ t.kind = "search"
    /\ chan' = Append(chan, Event("SearchResults", << >>, NoImage,
                                  IF answer = NoAnswer THEN << >> ELSE answer))
    /\ tasks' = Remove(tasks, t)
    /\ done' = Finished(t, FALSE, 1, answer # NoAnswer, <<"SearchResults">>)
    /\ UNCHANGED cacheVars

\* The task of spawn_cover_loaders for one manga.
CoverImage == 7

CoverLoader(t, fetched) ==
    /\ t.kind = "cover"
    /\ tasks' = Remove(tasks, t)
    /\ IF fetched
       THEN /\ chan' = Append(chan, Event("CoverLoaded", t.key, CoverImage,
                                          << >>))
            /\ done' = Finished(t, FALSE, 1, TRUE, <<"CoverLoaded">>)
       ELSE /\ done' = Finished(t, FALSE, 1, FALSE, << >>)
            /\ UNCHANGED chan
    /\ UNCHANGED cacheVars

\* spawn_chapters_loader: an Err of get_manga_chapters sends nothing.
\* A chapters task that reports its failure the way the page list task does.
ChaptersLoaderReportingFailure(t, chapters, ok) ==
    /\ t.kind = "chapters"
    /\ tasks' = Remove(tasks, t)
    /\ chan' = IF ok
               THEN Append(chan, Event("ChaptersLoaded", t.key, NoImage,
                                       chapters))
               ELSE Append(chan, Event("PageUrlsLoadFailed", t.key, NoImage,
                                       << >>))
    /\ UNCHANGED cacheVars

ChaptersLoader(t, chapters, ok) ==
    /\ t.kind = "chapters"
    /\ tasks' = Remove(tasks, t)
    /\ chan' = IF ok
               THEN Append(chan, Event("ChaptersLoaded", t.key, NoImage,
                                       chapters))
               ELSE chan
    /\ UNCHANGED cacheVars

\* The ids of the chapters the loop of spawn_chapter_thumbnails_preloader
\* does not skip, one byte each, in one string.
RECURSIVE Hosted(_)
Hosted(chapters) ==
    IF chapters = << >> THEN << >>
    ELSE (IF Head(chapters).external THEN << >> ELSE Head(chapters).id)
         \o Hosted(Tail(chapters))

\* spawn_chapter_thumbnail_loader (kind "thumbnail", key the chapter id) and
\* spawn_chapter_thumbnails_preloader (kind "thumbnails", key the chapters
\* still to do; the 200 ms sleep is the wait before its "start" step), both
\* around load_chapter_thumbnail and fetch_first_page_thumbnail.
ThumbnailLoader(t, answer, readOk, fetched, outcome) ==
    /\ t.kind \in {"thumbnail", "thumbnails"}
    /\ IF t.key = << >>
       THEN /\ tasks' = Remove(tasks, t)
            /\ UNCHANGED <<cacheVars, chan>>
       ELSE
       LET id     == IF t.kind = "thumbnails" THEN <<Head(t.key)>> ELSE t.key
           ended  == IF t.kind = "thumbnails" /\ Tail(t.key) # << >>
                     THEN Replace(tasks, t, [t EXCEPT !.key = Tail(@),
                                                      !.pc = "start"])
                     ELSE Remove(tasks, t)
           url    == Head(GetChapterUrls(chapter_urls, id))
       IN  \/ /\ t.pc = "start"
              /\ tasks' = Replace(tasks, t,
                      [t EXCEPT !.pc = IF HasChapterUrls(chapter_urls, id)
                                       THEN "image" ELSE "fetch"])
              /\ UNCHANGED <<cacheVars, chan>>
           \/ /\ t.pc = "fetch"
              /\ IF answer # NoAnswer /\ answer # << >>
                 THEN /\ chapter_urls' =
                            InsertChapterUrls(chapter_urls, id, answer)
                      /\ tasks' = Replace(tasks, t, [t EXCEPT !.pc = "image"])
                 ELSE /\ tasks' = ended
                      /\ UNCHANGED chapter_urls
              /\ UNCHANGED <<pages, access_order, disk, chan>>
           \/ /\ t.pc = "image"
              /\ LET g == GetPageResult(pages, access_order, disk, url, readOk)
                 IN  /\ pages' = g.pages
                     /\ access_order' = g.access_order
                     /\ IF g.ret # NoImage
                        THEN /\ chan' = Append(chan,
                                    Event("ChapterThumbnailLoaded", id, g.ret,
                                          << >>))
                             /\ tasks' = ended
                        ELSE /\ tasks' = Replace(tasks, t,
                                    [t EXCEPT !.pc = "fetch_image"])
                             /\ UNCHANGED chan
              /\ UNCHANGED <<disk, chapter_urls>>
           \/ /\ t.pc = "fetch_image"
              /\ tasks' = ended
              /\ IF fetched
                 THEN LET m == InsertPageResult(pages, access_order, disk, url,
                                   PageImageOf(url), outcome, SmallFile, {}, {})
                      IN  /\ pages' = m.pages
                          /\ access_order' = m.access_order
                          /\ disk' = m.disk
                          /\ chan' = Append(chan,
                                 Event("ChapterThumbnailLoaded", id,
                                       PageImageOf(url), << >>))
                 ELSE UNCHANGED <<pages, access_order, disk, chan>>
              /\ UNCHANGED chapter_urls

\* mangas.iter().skip(start).take(count): the manga ids.
Taken(mangas, start, count) ==
    SubSeq(mangas, start + 1,
           IF start + count < Len(mangas) THEN start + count ELSE Len(mangas))

RECURSIVE CoverLoaders(_)
CoverLoaders(mangas) ==
    IF mangas = << >> THEN EmptyBag
    ELSE Spawn("cover", Head(mangas)) (+) CoverLoaders(Tail(mangas))

spawn_cover_loaders(mangas, start, count) ==
    CoverLoaders(Taken(mangas, start, count))

Ids(mangas) == {mangas[i] : i \in 1..Len(mangas)}

(***************************************************************************)
(* run_app: the debounce check at the top of the loop.  It runs after      *)
(* every branch of the select, so every action of the loop ends with it.   *)
(***************************************************************************)
DebounceCheck(s) ==
    IF s.search_debounce # NoInstant /\ s.search_debounce >= DEBOUNCE_MS
    THEN IF /\ s.search_query # << >>
            /\ ~s.searching
            /\ s.search_query # s.last_search_query
         THEN [search  |-> [s EXCEPT !.search_debounce = NoInstant,
                                     !.searching = TRUE,
                                     !.last_search_query = s.search_query],
               spawned |-> Spawn("search", s.search_query)]
         ELSE [search  |-> [s EXCEPT !.search_debounce = NoInstant],
               spawned |-> EmptyBag]
    ELSE [search |-> s, spawned |-> EmptyBag]

\* The sleep branch of the select: SLEEP_MS elapse.
Elapse(s) ==
    IF s.search_debounce = NoInstant THEN s
    ELSE [s EXCEPT !.search_debounce =
              IF @ + SLEEP_MS < DEBOUNCE_MS THEN @ + SLEEP_MS
              ELSE DEBOUNCE_MS]

Sleep ==
    LET top == DebounceCheck(Elapse(search))
    IN  /\ search' = top.search
        /\ tasks' = tasks (+) top.spawned
        /\ UNCHANGED <<view, reader, picker, preloading_pages, app, chan>>

(***************************************************************************)
(* run_app: the branch of the select that receives a task result.          *)
(***************************************************************************)
Untouched ==
    [reader |-> reader, preloading |-> preloading_pages, search |-> search,
     app |-> app, spawned |-> EmptyBag]

\* add_chapter_thumbnail: chapter_thumbnails holds the protocols, which only
\* a picker makes.
add_chapter_thumbnail(a, chapter_id, pk) ==
    IF pk THEN [a EXCEPT !.chapter_thumbnails = @ \cup {chapter_id}] ELSE a

\* What the handler of the event ev does to the app and the pending sets,
\* and the tasks it spawns.
Handle(ev) ==
    IF ev.kind = "PageUrlsLoaded"
    THEN LET r == [reader EXCEPT !.page_urls = ev.list, !.error = NoError]
             s == preload_upcoming_pages(r.page_urls, 0, preloading_pages)
         IN  [Untouched EXCEPT
                 !.reader = r, !.preloading = s.preloading,
                 !.spawned = s.spawned (+)
                             (IF r.page_urls # << >>
                              THEN Spawn("page_image", Head(r.page_urls))
                              ELSE EmptyBag)]
    ELSE IF ev.kind = "PageUrlsLoadFailed"
    THEN [Untouched EXCEPT !.reader = set_page_load_error(reader, PagesError)]
    ELSE IF ev.kind = "PageImageLoaded"
    THEN LET r == set_page_image(reader, ev.image, picker)
             s == preload_upcoming_pages(r.page_urls, r.current_page,
                                         preloading_pages)
         IN  [Untouched EXCEPT !.reader = r, !.preloading = s.preloading,
                               !.spawned = s.spawned]
    ELSE IF ev.kind = "PageImageLoadFailed"
    THEN [Untouched EXCEPT !.reader = set_page_load_error(reader, ImageError)]
    ELSE IF ev.kind = "PagePreloaded"
    THEN LET idx == Position(reader.page_urls, ev.key)
             s   == IF idx >= 0
                    THEN preload_upcoming_pages(reader.page_urls, idx,
                                           preloading_pages \ {ev.key})
                    ELSE [preloading |-> preloading_pages \ {ev.key},
                          spawned |-> EmptyBag]
         IN  [Untouched EXCEPT !.preloading = s.preloading,
                               !.spawned = s.spawned]
    ELSE IF ev.kind = "SearchResults"
    THEN [Untouched EXCEPT
             !.search = [search EXCEPT
                 !.search_results = ev.list, !.searching = FALSE,
                 !.search_offset = 0,
                 !.pending_covers =
                     @ \cup Ids(Taken(ev.list, 0, COVERS_AHEAD))],
             !.spawned = spawn_cover_loaders(ev.list, 0, COVERS_AHEAD)]
    ELSE IF ev.kind = "CoverLoaded"
    THEN [Untouched EXCEPT
             !.search = [search EXCEPT !.cover_images = @ \cup {ev.key},
                                       !.pending_covers = @ \ {ev.key}]]
    ELSE IF ev.kind = "ChaptersLoaded"
    THEN [Untouched EXCEPT !.app = [app EXCEPT !.chapters = ev.list],
                           !.spawned = Spawn("thumbnails", Hosted(ev.list))]
    ELSE IF ev.kind = "ChapterThumbnailLoaded"
    THEN [Untouched EXCEPT !.app = add_chapter_thumbnail(app, ev.key, picker)]
    ELSE Untouched

Receive ==
    /\ chan # << >>
    /\ LET h   == Handle(Head(chan))
           top == DebounceCheck(h.search)
       IN  /\ reader' = h.reader
           /\ preloading_pages' = h.preloading
           /\ search' = top.search
           /\ app' = h.app
           /\ tasks' = tasks (+) h.spawned (+) top.spawned
    /\ chan' = Tail(chan)
    /\ UNCHANGED <<view, picker>>

(***************************************************************************)
(* handle_reader_input                                                     *)
(***************************************************************************)
go_back(v) ==
    IF v = "Reader" THEN "MangaDetail"
    ELSE IF v = "MangaDetail" THEN "Home" ELSE v

\* A loader that always asks for the first page of the list.
FirstUrlLoader(r) ==
    IF HasIndex(r.page_urls, r.current_page)
    THEN Spawn("page_image", r.page_urls[1])
    ELSE EmptyBag

CurrentUrlLoader(r) ==
    IF HasIndex(r.page_urls, r.current_page)
    THEN Spawn("page_image", r.page_urls[r.current_page + 1])
    ELSE EmptyBag

CurrentChapterLoader(r) ==
    IF HasIndex(r.chapters, r.current_chapter_idx)
    THEN Spawn("page_urls", r.chapters[r.current_chapter_idx + 1].id)
    ELSE EmptyBag

handle_reader_input(key) ==
    IF key = "Left" /\ CanPrevPage(reader)
    THEN LET r == prev_page(reader)
         IN  [reader |-> r, preloading |-> preloading_pages,
              spawned |-> CurrentUrlLoader(r)]
    ELSE IF key = "Right" /\ CanNextPage(reader)
    THEN LET r == next_page(reader)
             s == preload_upcoming_pages(r.page_urls, r.current_page,
                                         preloading_pages)
         IN  [reader |-> r, preloading |-> s.preloading,
              spawned |-> CurrentUrlLoader(r) (+) s.spawned]
    ELSE IF key = "n" /\ CanNextChapter(reader)
    THEN LET r == next_chapter(reader)
         IN  [reader |-> r, preloading |-> preloading_pages,
              spawned |-> CurrentChapterLoader(r)]
    ELSE IF key = "p" /\ CanPrevChapter(reader)
    THEN LET r == prev_chapter(reader)
         IN  [reader |-> r, preloading |-> preloading_pages,
              spawned |-> CurrentChapterLoader(r)]
    ELSE IF key = "r" /\ reader.error # NoError
    THEN LET r == [reader EXCEPT !.loading = TRUE, !.error = NoError]
         IN  [reader |-> r, preloading |-> preloading_pages,
              spawned |-> IF r.page_urls = << >>
                          THEN CurrentChapterLoader(r)
                          ELSE CurrentUrlLoader(r)]
    ELSE [reader |-> reader, preloading |-> preloading_pages,
          spawned |-> EmptyBag]

(***************************************************************************)
(* handle_search_tab_input, with the focus on the header.                  *)
(***************************************************************************)
CharKeys == {"o", "n", "q"}

\* The byte that KeyCode::Char(c) pushes on the query.
ByteOf(key) ==
    IF key = "o" THEN 111 ELSE IF key = "n" THEN 110 ELSE 113

\* String::pop
Pop(str) == IF str = << >> THEN str ELSE SubSeq(str, 1, Len(str) - 1)

handle_search_tab_input(s, key) ==
    IF key \in CharKeys
    THEN [search  |-> [s EXCEPT !.search_query = Append(@, ByteOf(key)),
                                !.search_debounce = 0],
          spawned |-> EmptyBag]
    ELSE IF key = "Backspace"
    THEN [search  |-> IF Pop(s.search_query) = << >>
                      THEN [s EXCEPT !.search_query = << >>,
                                     !.search_results = << >>,
                                     !.last_search_query = << >>,
                                     !.search_debounce = NoInstant]
                      ELSE [s EXCEPT !.search_query = Pop(@),
                                     !.search_debounce = 0],
          spawned |-> EmptyBag]
    ELSE IF key = "Enter" /\ s.search_query # << >> /\ ~s.searching
    THEN [search  |-> [s EXCEPT !.searching = TRUE,
                                !.last_search_query = s.search_query,
                                !.search_debounce = NoInstant],
          spawned |-> Spawn("search", s.search_query)]
    ELSE IF key = "Esc"
    THEN [search  |-> [s EXCEPT !.search_query = << >>,
                                !.search_results = << >>],
          spawned |-> EmptyBag]
    ELSE [search |-> s, spawned |-> EmptyBag]

(***************************************************************************)
(* handle_detail_input and handle_home_tab_input.  Of the Home tab only    *)
(* Enter is modelled, with the focus on the header or on the recent row;   *)
(* of MangaDetail every key but 'b'.                                       *)
(***************************************************************************)
\* The fields of App that go_back writes, beside the view.
go_back_app(a, v) ==
    IF v = "MangaDetail"
    THEN [a EXCEPT !.selected_manga = NoUrl, !.chapters = << >>]
    ELSE a

open_manga(a, manga) ==
    [a EXCEPT !.selected_manga = manga, !.chapters = << >>,
              !.chapter_selected = 0, !.chapter_thumbnails = {}]

preload_chapter_thumbnails(a, current_idx) ==
    IF HasIndex(a.chapters, current_idx)
    THEN LET chapter == a.chapters[current_idx + 1]
         IN  IF ~chapter.external /\ chapter.id \notin a.chapter_thumbnails
             THEN Spawn("thumbnail", chapter.id)
             ELSE EmptyBag
    ELSE EmptyBag

\* The chapter selection after an arrow key; -1: the key does not move it.
MovedTo(a, key) ==
    LET cols == IF a.chapter_grid_cols > 1 THEN a.chapter_grid_cols ELSE 1
        sel  == a.chapter_selected
    IN  IF key = "Left" /\ sel > 0 THEN sel - 1
        ELSE IF key = "Right" /\ sel + 1 < Len(a.chapters) THEN sel + 1
        ELSE IF key = "Up" /\ sel >= cols THEN sel - cols
        ELSE IF key = "Down" /\ sel + cols < Len(a.chapters) THEN sel + cols
        ELSE -1

handle_detail_input(key) ==
    LET same == [app |-> app, reader |-> reader, view |-> view,
                 spawned |-> EmptyBag]
    IN  IF key = "Esc"
        THEN [same EXCEPT !.app = go_back_app(app, view),
                          !.view = go_back(view)]
        ELSE IF key \in {"Left", "Right", "Up", "Down"}
        THEN IF MovedTo(app, key) >= 0
             THEN LET a == [app EXCEPT !.chapter_selected = MovedTo(app, key)]
                  IN  [same EXCEPT
                          !.app = a,
                          !.spawned = preload_chapter_thumbnails(a,
                                          a.chapter_selected)]
             ELSE same
        ELSE IF key = "Enter" /\ HasIndex(app.chapters, app.chapter_selected)
        THEN LET chapter == app.chapters[app.chapter_selected + 1]
             IN  IF chapter.external
                 THEN same
                 ELSE [same EXCEPT
                          !.reader = open_reader(reader, app.chapters,
                                                 app.chapter_selected),
                          !.view = "Reader",
                          !.spawned = Spawn("page_urls", chapter.id)]
        ELSE same

handle_home_tab_input(key) ==
    IF /\ key = "Enter"
       /\ search.focus = "Recent"
       /\ HasIndex(app.recently_updated, app.recent_offset)
    THEN LET manga == app.recently_updated[app.recent_offset + 1]
         IN  [app |-> open_manga(app, manga), view |-> "MangaDetail",
              spawned |-> Spawn("chapters", manga)]
    ELSE [app |-> app, view |-> view, spawned |-> EmptyBag]

(***************************************************************************)
(* run_app: the branch of the select that receives a key.                  *)
(***************************************************************************)
SearchHeaderFocused ==
    view = "Home" /\ search.tab = "Search" /\ search.focus = "Header"

HomeTabShown == view = "Home" /\ search.tab = "Home"

KeyEvent(key) ==
    /\ view \in {"Reader", "MangaDetail"} \/ SearchHeaderFocused
                                          \/ HomeTabShown
    /\ LET same == [reader |-> reader, preloading |-> preloading_pages,
                    search |-> search, app |-> app, view |-> view,
                    spawned |-> EmptyBag]
           rk   == handle_reader_input(key)
           dk   == handle_detail_input(key)
           sk   == handle_search_tab_input(search, key)
           hk   == handle_home_tab_input(key)
           out  == IF view = "Reader"
                   THEN [same EXCEPT
                            !.reader = rk.reader,
                            !.preloading = rk.preloading,
                            !.view = IF key = "Esc" THEN go_back(view)
                                     ELSE view,
                            !.spawned = rk.spawned]
                   ELSE IF view = "MangaDetail"
                   THEN [same EXCEPT !.app = dk.app, !.reader = dk.reader,
                                     !.view = dk.view,
                                     !.spawned = dk.spawned]
                   ELSE IF SearchHeaderFocused
                   THEN [same EXCEPT !.search = sk.search,
                                     !.spawned = sk.spawned]
                   ELSE [same EXCEPT !.app = hk.app, !.view = hk.view,
                                     !.spawned = hk.spawned]
           top  == DebounceCheck(out.search)
       IN  /\ reader' = out.reader
           /\ preloading_pages' = out.preloading
           /\ search' = top.search
           /\ app' = out.app
           /\ view' = out.view
           /\ tasks' = tasks (+) out.spawned (+) top.spawned
    /\ UNCHANGED <<chan, picker>>

(***************************************************************************)
(* SpecReader: the Reader view right after handle_detail_input opened a    *)
(* chapter of three pages (open_reader, then spawn_page_urls_loader), with *)
(* an empty cache.  The user pages back and forth and retries; fetches,    *)
(* disk reads and disk writes may fail.  A key is only pressed while fewer *)
(* than MaxInFlight tasks and events are outstanding.                      *)
(***************************************************************************)
Chapter(id, external) == [id |-> id, external |-> external]

ReaderKeys == {"Left", "Right", "r"}

MaxInFlight == 2

LoopWrites == {"ok"}

OpenedReader(chapter_id) ==
    /\ pages = << >>
    /\ access_order = << >>
    /\ disk = << >>
    /\ touched = << >>
    /\ lastPut = << >>
    /\ last = [op |-> "new", url |-> NoUrl, ret |-> NoImage, from |-> "new",
               evicted |-> NoUrl, sweep |-> NoSweep]
    /\ chapter_urls = << >>
    /\ search = NewSearch
    /\ app = [NewApp EXCEPT !.selected_manga = Manga,
                            !.chapters = <<Chapter(chapter_id, FALSE)>>]
    /\ nav = NoKey
    /\ typing = NothingTyped
    /\ view = "Reader"
    /\ reader = open_reader(NewReader, <<Chapter(chapter_id, FALSE)>>, 0)
    /\ preloading_pages = {}
    /\ tasks = Spawn("page_urls", chapter_id)
    /\ chan = << >>
    /\ done = NoTask
    /\ seen = NothingSeen

InitReader == OpenedReader(ShortChapter) /\ picker = TRUE

loopState == <<view, reader, picker, preloading_pages, search, app>>

RunPageUrlsLoader ==
    \E t \in BagToSet(tasks) : \E answer \in PageAnswers(t.key) :
        /\ PageUrlsLoader(t, answer)
        /\ UNCHANGED <<histVars, loopState, seen, typing, nav>>

RunPageImageLoader ==
    \E t \in BagToSet(tasks) : \E fetched \in BOOLEAN :
        \E outcome \in LoopWrites :
            /\ PageImageLoader(t, TRUE, fetched, outcome)
            /\ UNCHANGED <<histVars, loopState, seen, typing, nav>>

RunPagePreloader ==
    \E t \in BagToSet(tasks) : \E fetched \in BOOLEAN :
        \E outcome \in LoopWrites :
            /\ PagePreloader(t, fetched, outcome)
            /\ UNCHANGED <<histVars, loopState, seen, typing, nav>>

ReceiveTaskResult ==
    /\ Receive
    /\ seen' = [seen EXCEPT !.event = Head(chan).kind]
    /\ UNCHANGED <<cacheVars, histVars, done, typing, nav>>

PressReaderKey ==
    \E key \in ReaderKeys :
        /\ BagCardinality(tasks) + Len(chan) < MaxInFlight
        /\ KeyEvent(key)
        /\ seen' = [seen EXCEPT !.event = "key"]
        /\ UNCHANGED <<cacheVars, histVars, done, typing, nav>>

NextReader ==
    \/ RunPageUrlsLoader
    \/ RunPageImageLoader
    \/ RunPagePreloader
    \/ ReceiveTaskResult
    \/ PressReaderKey

SpecReader == InitReader /\ [][NextReader]_vars

(***************************************************************************)
(* SpecLoader: the same Reader, read forwards: the user only pages right   *)
(* and retries.  Fetches fail or succeed, files of the disk cache may be   *)
(* unreadable and may fail to be created.                                  *)
(***************************************************************************)
ForwardKeys == {"Right", "r"}

DiskWrites == {"ok", "nocreate"}

LoadPageImage ==
    \E t \in BagToSet(tasks) : \E readOk, fetched \in BOOLEAN :
        \E outcome \in DiskWrites :
            /\ PageImageLoader(t, readOk, fetched, outcome)
            /\ UNCHANGED <<histVars, loopState, seen, typing, nav>>

PreloadPage ==
    \E t \in BagToSet(tasks) : \E fetched \in BOOLEAN :
        \E outcome \in DiskWrites :
            /\ PagePreloader(t, fetched, outcome)
            /\ UNCHANGED <<histVars, loopState, seen, typing, nav>>

PressForwardKey ==
    \E key \in ForwardKeys :
        /\ BagCardinality(tasks) + Len(chan) < MaxInFlight
        /\ KeyEvent(key)
        /\ seen' = [seen EXCEPT !.event = "key"]
        /\ UNCHANGED <<cacheVars, histVars, done, typing, nav>>

NextLoader ==
    \/ RunPageUrlsLoader
    \/ LoadPageImage
    \/ PreloadPage
    \/ ReceiveTaskResult
    \/ PressForwardKey

SpecLoader == InitReader /\ [][NextLoader]_vars

(***************************************************************************)
(* SpecLoaderLive: SpecLoader with the scheduling of the runtime: a        *)
(* spawned task runs on to its next await and to its end, and the loop     *)
(* receives every event that is sent.  The user is free never to press a   *)
(* key.                                                                    *)
(***************************************************************************)
SpecLoaderLive ==
    /\ SpecLoader
    /\ WF_vars(RunPageUrlsLoader)
    /\ WF_vars(LoadPageImage)
    /\ WF_vars(PreloadPage)
    /\ WF_vars(ReceiveTaskResult)

(***************************************************************************)
(* SpecNav: from the Home tab with the focus on the recent row, which      *)
(* shows Manga.  The user opens the manga, moves over its chapters, opens  *)
(* them and goes back, without turning pages.  The fetches of chapter      *)
(* lists, page lists and preloads fail or succeed and page images arrive;  *)
(* the requests of the thumbnail tasks fail, and the cache directory       *)
(* cannot be written, so the cache is its memory.  nav.key is the key of   *)
(* the last step of the loop, "none" when that step was not a key, and     *)
(* nav.home holds once the user has gone back to Home after a chapter was  *)
(* opened.  A key is only pressed while fewer than MaxInFlight tasks and   *)
(* events are outstanding.                                                 *)
(***************************************************************************)
MangaChapters ==
    <<Chapter(FirstChapter, FALSE), Chapter(SecondChapter, FALSE),
      Chapter(ExternalChapter, TRUE)>>

NavKeys ==
    IF view = "Home" THEN {"Enter"}
    ELSE IF view = "MangaDetail" THEN {"Enter", "Esc", "Right"}
    ELSE {"Esc"}

InitNav ==
    /\ pages = << >>
    /\ access_order = << >>
    /\ disk = << >>
    /\ touched = << >>
    /\ lastPut = << >>
    /\ last = [op |-> "new", url |-> NoUrl, ret |-> NoImage, from |-> "new",
               evicted |-> NoUrl, sweep |-> NoSweep]
    /\ chapter_urls = << >>
    /\ view = "Home"
    /\ reader = NewReader
    /\ picker = TRUE
    /\ preloading_pages = {}
    /\ search = [NewSearch EXCEPT !.focus = "Recent"]
    /\ app = [NewApp EXCEPT !.recently_updated = <<Manga>>]
    /\ tasks = EmptyBag
    /\ chan = << >>
    /\ done = NoTask
    /\ seen = NothingSeen
    /\ typing = NothingTyped
    /\ nav = NoKey

\* nav after a step that is not a key.
NotAKey == [nav EXCEPT !.key = "none"]

LoadChapters ==
    \E t \in BagToSet(tasks) : \E ok \in BOOLEAN :
        /\ ChaptersLoader(t, MangaChapters, ok)
        /\ nav' = NotAKey
        /\ UNCHANGED <<histVars, loopState, done, seen, typing>>

LoadThumbnail ==
    \E t \in BagToSet(tasks) :
        /\ ThumbnailLoader(t, NoAnswer, TRUE, FALSE, "nocreate")
        /\ nav' = NotAKey
        /\ UNCHANGED <<histVars, loopState, done, seen, typing>>

LoadPageUrls ==
    \E t \in BagToSet(tasks) : \E answer \in PageAnswers(t.key) :
        /\ PageUrlsLoader(t, answer)
        /\ nav' = NotAKey
        /\ UNCHANGED <<histVars, loopState, seen, typing>>

FetchPageImage ==
    \E t \in BagToSet(tasks) :
        /\ PageImageLoader(t, TRUE, TRUE, "nocreate")
        /\ nav' = NotAKey
        /\ UNCHANGED <<histVars, loopState, seen, typing>>

PreloadNext ==
    \E t \in BagToSet(tasks) : \E fetched \in BOOLEAN :
        /\ PagePreloader(t, fetched, "nocreate")
        /\ nav' = NotAKey
        /\ UNCHANGED <<histVars, loopState, seen, typing>>

ReceiveResult ==
    /\ Receive
    /\ nav' = NotAKey
    /\ UNCHANGED <<cacheVars, histVars, done, seen, typing>>

\* nav after the key.
Pressed(key) ==
    [nav EXCEPT !.key = key,
                !.home = @ \/ /\ key = "Esc" /\ view = "MangaDetail"
                              /\ reader.chapters # << >>]

PressNavKey ==
    \E key \in NavKeys :
        /\ BagCardinality(tasks) + Len(chan) < MaxInFlight
        /\ KeyEvent(key)
        /\ nav' = Pressed(key)
        /\ UNCHANGED <<cacheVars, histVars, done, seen, typing>>

NextNav ==
    \/ LoadChapters
    \/ LoadThumbnail
    \/ LoadPageUrls
    \/ FetchPageImage
    \/ PreloadNext
    \/ ReceiveResult
    \/ PressNavKey

SpecNav == InitNav /\ [][NextNav]_vars

(***************************************************************************)
(* SpecChapters: the Reader right after handle_detail_input opened the     *)
(* first chapter of Manga, with an empty cache whose directory cannot be   *)
(* written.  The user turns pages and changes chapter; the at-home server  *)
(* answers or fails, page images arrive.                                   *)
(***************************************************************************)
ChapterKeys == {"Left", "Right", "n", "p"}

InitChapters ==
    /\ pages = << >>
    /\ access_order = << >>
    /\ disk = << >>
    /\ touched = << >>
    /\ lastPut = << >>
    /\ last = [op |-> "new", url |-> NoUrl, ret |-> NoImage, from |-> "new",
               evicted |-> NoUrl, sweep |-> NoSweep]
    /\ chapter_urls = << >>
    /\ view = "Reader"
    /\ reader = open_reader(NewReader, MangaChapters, 0)
    /\ picker = TRUE
    /\ preloading_pages = {}
    /\ search = [NewSearch EXCEPT !.focus = "Recent"]
    /\ app = [NewApp EXCEPT !.recently_updated = <<Manga>>,
                            !.selected_manga = Manga,
                            !.chapters = MangaChapters]
    /\ tasks = Spawn("page_urls", FirstChapter)
    /\ chan = << >>
    /\ done = NoTask
    /\ seen = NothingSeen
    /\ typing = NothingTyped
    /\ nav = NoKey

FetchAhead ==
    \E t \in BagToSet(tasks) :
        /\ PagePreloader(t, TRUE, "nocreate")
        /\ nav' = NotAKey
        /\ UNCHANGED <<histVars, loopState, seen, typing>>

PressChapterKey ==
    \E key \in ChapterKeys :
        /\ BagCardinality(tasks) + Len(chan) < MaxInFlight
        /\ KeyEvent(key)
        /\ nav' = Pressed(key)
        /\ UNCHANGED <<cacheVars, histVars, done, seen, typing>>

NextChapters ==
    \/ LoadPageUrls
    \/ FetchPageImage
    \/ FetchAhead
    \/ ReceiveResult
    \/ PressChapterKey

SpecChapters == InitChapters /\ [][NextChapters]_vars

(***************************************************************************)
(* SpecIdle: the Reader of SpecChapters with the retry key, page lists and *)
(* page images that fail or arrive, and a user who at some point stops     *)
(* pressing keys.  A spawned task runs on to its end and the loop receives *)
(* every event that is sent.                                               *)
(***************************************************************************)
IdleKeys == {"Left", "Right", "n", "r"}

UserAway == nav.key = "away"

FetchImage ==
    \E t \in BagToSet(tasks) : \E fetched \in BOOLEAN :
        /\ PageImageLoader(t, TRUE, fetched, "nocreate")
        /\ UNCHANGED <<histVars, loopState, seen, typing, nav>>

FetchPreload ==
    \E t \in BagToSet(tasks) : \E fetched \in BOOLEAN :
        /\ PagePreloader(t, fetched, "nocreate")
        /\ UNCHANGED <<histVars, loopState, seen, typing, nav>>

PressIdleKey ==
    \E key \in IdleKeys :
        /\ ~UserAway
        /\ BagCardinality(tasks) + Len(chan) < MaxInFlight
        /\ KeyEvent(key)
        /\ nav' = Pressed(key)
        /\ UNCHANGED <<cacheVars, histVars, done, seen, typing>>

UserLeaves ==
    /\ ~UserAway
    /\ nav' = [nav EXCEPT !.key = "away"]
    /\ UNCHANGED <<cacheVars, histVars, loopVars, done, seen, typing>>

NextIdle ==
    \/ RunPageUrlsLoader
    \/ FetchImage
    \/ FetchPreload
    \/ ReceiveTaskResult
    \/ PressIdleKey
    \/ UserLeaves

SpecIdle ==
    /\ InitChapters
    /\ [][NextIdle]_vars
    /\ WF_vars(RunPageUrlsLoader)
    /\ WF_vars(FetchImage)
    /\ WF_vars(FetchPreload)
    /\ WF_vars(ReceiveTaskResult)

(***************************************************************************)
(* SpecRetry: the first chapter of Manga is open in the Reader; page lists *)
(* and page images fail or arrive, an image after up to MAX_RETRIES        *)
(* attempts; the user turns to the next page and presses the retry key.    *)
(***************************************************************************)
RetryKeys == {"r", "Right"}

FetchOrFail ==
    \E t \in BagToSet(tasks) : \E fetched \in BOOLEAN :
        /\ PageImageLoader(t, TRUE, fetched, "nocreate")
        /\ nav' = NotAKey
        /\ UNCHANGED <<histVars, loopState, seen, typing>>

PressRetryKey ==
    \E key \in RetryKeys :
        /\ BagCardinality(tasks) + Len(chan) < MaxInFlight
        /\ KeyEvent(key)
        /\ nav' = Pressed(key)
        /\ UNCHANGED <<cacheVars, histVars, done, seen, typing>>

NextRetry ==
    \/ LoadPageUrls
    \/ FetchOrFail
    \/ FetchAhead
    \/ ReceiveResult
    \/ PressRetryKey

SpecRetry == InitChapters /\ [][NextRetry]_vars

(***************************************************************************)
(* SpecThumb: MangaDetail right after the ChaptersLoaded event of Manga    *)
(* was consumed: the chapters are listed and the thumbnails preloader has  *)
(* just been spawned, the cache is empty and its directory cannot be       *)
(* written.  The user opens the first chapter and, on an error, retries.   *)
(* The at-home server answers or fails, for the thumbnail tasks as for the *)
(* page_urls tasks.  nav.once holds the chapters whose page list           *)
(* get_chapter_pages has returned since the user last asked for a retry of *)
(* that chapter, nav.again those for which it then returned it once more.  *)
(***************************************************************************)
ThumbKeys == IF view = "MangaDetail" THEN {"Enter"} ELSE {"r"}

InitThumb ==
    /\ pages = << >>
    /\ access_order = << >>
    /\ disk = << >>
    /\ touched = << >>
    /\ lastPut = << >>
    /\ last = [op |-> "new", url |-> NoUrl, ret |-> NoImage, from |-> "new",
               evicted |-> NoUrl, sweep |-> NoSweep]
    /\ chapter_urls = << >>
    /\ view = "MangaDetail"
    /\ reader = NewReader
    /\ picker = TRUE
    /\ preloading_pages = {}
    /\ search = [NewSearch EXCEPT !.focus = "Recent"]
    /\ app = [NewApp EXCEPT !.recently_updated = <<Manga>>,
                            !.selected_manga = Manga,
                            !.chapters = MangaChapters]
    /\ tasks = Spawn("thumbnails", Hosted(MangaChapters))
    /\ chan = << >>
    /\ done = NoTask
    /\ seen = NothingSeen
    /\ typing = NothingTyped
    /\ nav = NoKey

\* The chapter the step of the task t asks the at-home server for.
Asked(t) ==
    IF t.pc # "fetch" \/ t.key = << >> THEN NoUrl
    ELSE IF t.kind = "thumbnails" THEN <<Head(t.key)>>
    ELSE IF t.kind \in {"thumbnail", "page_urls"} THEN t.key
    ELSE NoUrl

\* nav after a step of t in which get_chapter_pages gave answer.
Resolved(t, answer) ==
    IF Asked(t) = NoUrl \/ answer = NoAnswer \/ answer = << >>
    THEN NotAKey
    ELSE [NotAKey EXCEPT
             !.once = @ \cup {Asked(t)},
             !.again = IF Asked(t) \in nav.once THEN @ \cup {Asked(t)}
                       ELSE @]

\* nav after the key: 'r' on a failed page list asks for the chapter again.
Retried(key) ==
    [Pressed(key) EXCEPT
        !.once = IF /\ key = "r" /\ view = "Reader"
                    /\ reader.error # NoError /\ reader.page_urls = << >>
                    /\ HasIndex(reader.chapters, reader.current_chapter_idx)
                 THEN @ \ {reader.chapters[reader.current_chapter_idx + 1].id}
                 ELSE @]

ResolveForThumbnail ==
    \E t \in BagToSet(tasks) : \E fetched \in BOOLEAN :
        \E answer \in PageAnswers(Asked(t)) :
            /\ ThumbnailLoader(t, answer, TRUE, fetched, "nocreate")
            /\ nav' = Resolved(t, answer)
            /\ UNCHANGED <<histVars, loopState, done, seen, typing>>

ResolveForReader ==
    \E t \in BagToSet(tasks) : \E answer \in PageAnswers(t.key) :
        /\ PageUrlsLoader(t, answer)
        /\ nav' = Resolved(t, answer)
        /\ UNCHANGED <<histVars, loopState, seen, typing>>

PressThumbKey ==
    \E key \in ThumbKeys :
        /\ BagCardinality(tasks) + Len(chan) < MaxInFlight
        /\ KeyEvent(key)
        /\ nav' = Retried(key)
        /\ UNCHANGED <<cacheVars, histVars, done, seen, typing>>

NextThumb ==
    \/ ResolveForThumbnail
    \/ ResolveForReader
    \/ FetchPageImage
    \/ FetchAhead
    \/ ReceiveResult
    \/ PressThumbKey

SpecThumb == InitThumb /\ [][NextThumb]_vars

(***************************************************************************)
(* SpecPreload: a chapter of five pages a, b, c, d, e is opened and the    *)
(* user stays on its first page; fetches fail or succeed.  seen keeps the  *)
(* urls a preloader was spawned for and the urls whose PagePreloaded event *)
(* the loop consumed.                                                      *)
(***************************************************************************)
InitPreload == OpenedReader(LongChapter) /\ picker = TRUE

ReceiveAndNote ==
    /\ Receive
    /\ seen' = [event     |-> Head(chan).kind,
                scheduled |-> seen.scheduled \cup
                                  PreloadKeys(tasks' (-) tasks),
                preloaded |-> seen.preloaded \cup
                                  (IF Head(chan).kind = "PagePreloaded"
                                   THEN {Head(chan).key} ELSE {})]
    /\ UNCHANGED <<cacheVars, histVars, done, typing, nav>>

NextPreload ==
    \/ RunPageUrlsLoader
    \/ RunPageImageLoader
    \/ RunPagePreloader
    \/ ReceiveAndNote

SpecPreload == InitPreload /\ [][NextPreload]_vars

(***************************************************************************)
(* SpecPreloadLive: SpecPreload with the scheduling of the runtime: a      *)
(* spawned task runs on to its end and the loop receives every event that  *)
(* is sent.  The user presses no key.                                      *)
(***************************************************************************)
SpecPreloadLive ==
    /\ SpecPreload
    /\ WF_vars(RunPageUrlsLoader)
    /\ WF_vars(RunPageImageLoader)
    /\ WF_vars(RunPagePreloader)
    /\ WF_vars(ReceiveAndNote)

(***************************************************************************)
(* SpecSearch: the Search tab with the focus on the header.  The user      *)
(* types queries of at most MaxQuery characters, erases, submits and       *)
(* clears; time passes in the sleeps of the loop; a search answers a list  *)
(* of one manga, an empty list or an error.  typing follows the bursts of  *)
(* keystrokes: a Char or Backspace key that comes less than DEBOUNCE_MS    *)
(* after the previous one continues the burst, any other starts a burst;   *)
(* quiet is the time since the last of them, before the last dispatched    *)
(* query when the burst began, sent the queries dispatched since, pure     *)
(* whether no other key was pressed since (before and sent are dropped     *)
(* when one is), and the phase is "settled" from the sleep that completes  *)
(* DEBOUNCE_MS of quiet until the next key.                                *)
(***************************************************************************)
MaxQuery == 2

SearchAnswers == {<< >>, <<Manga>>, NoAnswer}

SearchKeys == {"o", "n", "Backspace", "Enter", "Esc"}

InitSearch ==
    /\ pages = << >>
    /\ access_order = << >>
    /\ disk = << >>
    /\ touched = << >>
    /\ lastPut = << >>
    /\ last = [op |-> "new", url |-> NoUrl, ret |-> NoImage, from |-> "new",
               evicted |-> NoUrl, sweep |-> NoSweep]
    /\ chapter_urls = << >>
    /\ view = "Home"
    /\ reader = NewReader
    /\ picker = TRUE
    /\ preloading_pages = {}
    /\ search = [NewSearch EXCEPT !.tab = "Search"]
    /\ app = NewApp
    /\ nav = NoKey
    /\ tasks = EmptyBag
    /\ chan = << >>
    /\ done = NoTask
    /\ seen = NothingSeen
    /\ typing = NothingTyped

SearchQueries(bag) ==
    {t.key : t \in {x \in BagToSet(bag) : x.kind = "search"}}

\* The queries dispatched by the step, in a sequence.
Dispatched ==
    LET qs == SearchQueries(tasks' (-) tasks)
    IN  IF qs = {} THEN << >> ELSE <<CHOOSE q \in qs : TRUE>>

\* sent, after the step: only a burst without other keys is followed.
Note(sent) == IF typing.pure THEN sent \o Dispatched ELSE << >>

TypeKey ==
    \E key \in SearchKeys :
        /\ BagCardinality(tasks) + Len(chan) < MaxInFlight
        /\ key \in CharKeys => Len(search.search_query) < MaxQuery
        /\ KeyEvent(key)
        /\ typing' =
             IF key \in CharKeys \cup {"Backspace"}
             THEN IF typing.phase = "typing"
                  THEN [typing EXCEPT !.quiet = 0, !.sent = Note(@)]
                  ELSE [phase |-> "typing", quiet |-> 0, pure |-> TRUE,
                        before |-> search.last_search_query,
                        sent |-> Dispatched]
             ELSE [typing EXCEPT
                      !.pure = FALSE, !.sent = << >>, !.before = << >>,
                      !.phase = IF @ = "settled" THEN "idle" ELSE @]
        /\ UNCHANGED <<cacheVars, histVars, done, seen, nav>>

SleepTick ==
    /\ Sleep
    /\ typing' =
         LET q == IF typing.quiet + SLEEP_MS < DEBOUNCE_MS
                  THEN typing.quiet + SLEEP_MS ELSE DEBOUNCE_MS
         IN  [typing EXCEPT
                 !.quiet = q, !.sent = Note(@),
                 !.phase = IF @ = "typing" /\ q = DEBOUNCE_MS
                           THEN "settled" ELSE @]
    /\ UNCHANGED <<cacheVars, histVars, done, seen, nav>>

RunSearch ==
    \E t \in BagToSet(tasks) : \E answer \in SearchAnswers :
        /\ SearchTask(t, answer)
        /\ UNCHANGED <<histVars, loopState, seen, typing, nav>>

RunCoverLoader ==
    \E t \in BagToSet(tasks) : \E fetched \in BOOLEAN :
        /\ CoverLoader(t, fetched)
        /\ UNCHANGED <<histVars, loopState, seen, typing, nav>>

ReceiveSearchEvent ==
    /\ Receive
    /\ typing' = [typing EXCEPT !.sent = Note(@)]
    /\ UNCHANGED <<cacheVars, histVars, done, seen, nav>>

NextSearch ==
    \/ TypeKey
    \/ SleepTick
    \/ RunSearch
    \/ RunCoverLoader
    \/ ReceiveSearchEvent

SpecSearch == InitSearch /\ [][NextSearch]_vars

(***************************************************************************)
(* SpecSearchLive: SpecSearch with the scheduling of the runtime: the      *)
(* sleep of the select ends, a spawned task runs to its end, and the loop  *)
(* receives every event that is sent.  The user is free never to press a   *)
(* key.                                                                    *)
(***************************************************************************)
SpecSearchLive ==
    /\ SpecSearch
    /\ WF_vars(SleepTick)
    /\ WF_vars(RunSearch)
    /\ WF_vars(RunCoverLoader)
    /\ WF_vars(ReceiveSearchEvent)

(***************************************************************************)
(* SpecQuery: the Search tab with the keys that write and clear the query, *)
(* the quit key among them, up to the return of run_app.  The history      *)
(* typing holds here the query of the last search that was dispatched and  *)
(* whether the query has been cleared since, and nav the last key.         *)
(***************************************************************************)
QueryKeys == {"o", "q", "Backspace", "Esc"}

\* run_app has returned: if key.code == KeyCode::Char('q') { return Ok(()) }
Returned == nav.key = "q"

InitQuery ==
    /\ pages = << >>
    /\ access_order = << >>
    /\ disk = << >>
    /\ touched = << >>
    /\ lastPut = << >>
    /\ last = [op |-> "new", url |-> NoUrl, ret |-> NoImage, from |-> "new",
               evicted |-> NoUrl, sweep |-> NoSweep]
    /\ chapter_urls = << >>
    /\ view = "Home"
    /\ reader = NewReader
    /\ picker = TRUE
    /\ preloading_pages = {}
    /\ search = [NewSearch EXCEPT !.tab = "Search"]
    /\ app = NewApp
    /\ nav = NoKey
    /\ tasks = EmptyBag
    /\ chan = << >>
    /\ done = NoTask
    /\ seen = NothingSeen
    /\ typing = [searched |-> << >>, cleared |-> FALSE]

\* typing after the step: a dispatch is remembered, and so is a key that
\* empties the query.
Remembered ==
    IF Dispatched # << >>
    THEN [searched |-> Dispatched[1], cleared |-> FALSE]
    ELSE [typing EXCEPT
             !.cleared = @ \/ /\ search.search_query # << >>
                              /\ search'.search_query = << >>]

QueryKey ==
    \E key \in QueryKeys :
        /\ ~Returned
        /\ BagCardinality(tasks) + Len(chan) < MaxInFlight
        /\ key \in CharKeys => Len(search.search_query) < MaxQuery
        /\ KeyEvent(key)
        /\ nav' = [nav EXCEPT !.key = key]
        /\ typing' = Remembered
        /\ UNCHANGED <<cacheVars, histVars, done, seen>>

QuerySleep ==
    /\ ~Returned
    /\ Sleep
    /\ typing' = Remembered
    /\ UNCHANGED <<cacheVars, histVars, done, seen, nav>>

QueryReceive ==
    /\ ~Returned
    /\ Receive
    /\ typing' = Remembered
    /\ UNCHANGED <<cacheVars, histVars, done, seen, nav>>

NextQuery ==
    \/ QueryKey
    \/ QuerySleep
    \/ RunSearch
    \/ RunCoverLoader
    \/ QueryReceive

SpecQuery == InitQuery /\ [][NextQuery]_vars

(***************************************************************************)
(* Claims on the page cache.                                               *)
(***************************************************************************)

\* C1: after any sequence of get_page and insert_page calls the memory map
\* never holds more images than MAX_MEMORY_PAGES.
C1_MemoryBounded == Cardinality(DOMAIN pages) <= MAX_MEMORY_PAGES

\* C1 witness: an insert into a full memory map evicted a key and the map is
\* full again.
C1_Witness ==
    /\ last.evicted # NoUrl
    /\ last.evicted \notin DOMAIN pages
    /\ Cardinality(DOMAIN pages) = MAX_MEMORY_PAGES

PositionIn(order, url) == CHOOSE i \in 1..Len(order) : order[i] = url

\* C2: whenever a call evicts a key from memory, the victim is the resident
\* key that was touched least recently, and every key that stays resident
\* was touched after the victim.
C2_EvictsLeastRecentlyTouched ==
    [][last'.evicted # NoUrl =>
        /\ touched # << >>
        /\ last'.evicted = Head(touched)
        /\ \A k \in (DOMAIN pages' \cap DOMAIN pages) \ {last'.evicted} :
               PositionIn(touched, k) > PositionIn(touched, last'.evicted)]_vars

\* C2 witness: promoting a page from disk evicted a key that an earlier
\* get_page had not left at the old end of the order.
C2_Witness ==
    /\ last.op = "get_page"
    /\ last.from = "disk"
    /\ last.evicted # NoUrl
    /\ last.evicted \notin DOMAIN pages

\* C3: after insert_page(k, v), a later get_page(k) returns v, whatever calls
\* on other keys happened in between, also when k has left memory.
C3_GetReturnsLastPut ==
    (last.op = "get_page" /\ lastPut[last.url] # NoImage)
        => last.ret = lastPut[last.url]

C4_OneTaskPerKey ==
    \A t \in BagToSet(tasks) :
        /\ CopiesIn(t, tasks) = 1
        /\ \A u \in BagToSet(tasks) : u.key = t.key => u = t

\* C5: a background task that has finished has sent exactly one event into
\* the channel, whether its fetch succeeded or failed.
C5_OneEventPerTask == done.kind # "none" => Len(done.events) = 1

\* C6: a page-image loader that has finished has sent exactly one event,
\* PageImageLoaded or PageImageLoadFailed; it sent PageImageLoadFailed
\* exactly when get_page missed and it made three fetch attempts that all
\* failed, PageImageLoaded exactly on a cache hit (without any fetch) or on
\* its first successful attempt, and it made at most three attempts.
C6_PageImageLoaderOutcome ==
    done.kind = "page_image" =>
        /\ Len(done.events) = 1
        /\ done.events[1] \in {"PageImageLoaded", "PageImageLoadFailed"}
        /\ done.events[1] = "PageImageLoadFailed" <=>
               (~done.hit /\ done.attempts = 3 /\ ~done.fetched)
        /\ done.events[1] = "PageImageLoaded" <=>
               (done.hit \/ done.fetched)
        /\ done.hit => done.attempts = 0
        /\ done.attempts <= 3

C6_Witness ==
    /\ done.kind = "page_image"
    /\ done.events = <<"PageImageLoadFailed">>
    /\ done.attempts = 3
    /\ ~done.hit

\* C7: right after the loop consumed a PageImageLoaded event, the image the
\* reader displays is an image of the url at reader.current_page of the
\* current page list (as fetched, or as read back from the disk cache).
C7_DisplayedImageIsCurrent ==
    seen.event = "PageImageLoaded" =>
        /\ HasIndex(reader.page_urls, reader.current_page)
        /\ LET url == reader.page_urls[reader.current_page + 1]
           IN  reader.page_image \in
                   {PageImageOf(url), JpegRoundTrip(PageImageOf(url))}

\* The step is the loop consuming the event at the head of the channel.
Consumes(kind) ==
    chan # << >> /\ chan' = Tail(chan) /\ Head(chan).kind = kind

\* The urls of the list at the indices i+1 .. i+3.
WindowAfter(page_urls, i) ==
    {page_urls[k + 1] : k \in {n \in (i + 1)..(i + 3) : n < Len(page_urls)}}

\* The scheduler ran from index i with the pending set pending: it spawned
\* one preloader for each url of the window that was not pending, nothing
\* else, and added the window to the pending set.
ScheduledFrom(i, pending) ==
    LET spawned == tasks' (-) tasks
        window  == WindowAfter(reader'.page_urls, i)
    IN  /\ PreloadKeys(spawned) = window \ pending
        /\ \A t \in BagToSet(spawned) :
               t.kind = "preload" => CopiesIn(t, spawned) = 1
        /\ preloading_pages' = pending \cup window

C9_SchedulerSteps ==
    /\ Consumes("PageUrlsLoaded") => ScheduledFrom(0, preloading_pages)
    /\ Consumes("PageImageLoaded") =>
           ScheduledFrom(reader'.current_page, preloading_pages)
    /\ Consumes("PagePreloaded") =>
           LET url == Head(chan).key
               j   == Position(reader.page_urls, url)
           IN  /\ url \notin preloading_pages'
               /\ j >= 0 => ScheduledFrom(j, preloading_pages \ {url})

\* C9 as stated: e is first scheduled when b completes, that is, a
\* preloader is spawned for e only once PagePreloaded of b was consumed.
C9_FrontierWaitsForB == <<101>> \in seen.scheduled => <<98>> \in seen.preloaded

\* C9: every run of preload_upcoming_pages from index i spawns a preloader
\* for exactly the urls at i+1 .. i+3 that are not pending and adds them to
\* the pending set; consuming PagePreloaded of the url at index j removes it
\* from the pending set and runs the scheduler from j; with the list
\* [a,b,c,d,e] at page 0, until a PagePreloaded event is consumed exactly
\* b, c, d were scheduled, e is scheduled only after a PagePreloaded event
\* (of b, c or d) was consumed, and it is scheduled once that of b was.
C9_PreloadFrontier ==
    /\ [][C9_SchedulerSteps]_vars
    /\ [](reader.page_urls # << >> /\ seen.preloaded = {} =>
              seen.scheduled = {<<98>>, <<99>>, <<100>>})
    /\ [](<<101>> \in seen.scheduled =>
              seen.preloaded \cap {<<98>>, <<99>>, <<100>>} # {})
    /\ [](<<98>> \in seen.preloaded => <<101>> \in seen.scheduled)

C9_Witness ==
    /\ seen.event = "PagePreloaded"
    /\ seen.preloaded = {<<98>>}
    /\ <<101>> \in seen.scheduled
    /\ <<98>> \notin preloading_pages
    /\ <<101>> \in preloading_pages

\* C8: when a burst of Char and Backspace keystrokes, each less than
\* DEBOUNCE_MS after the previous one, has been followed by DEBOUNCE_MS of
\* quiet, and it left a non-empty query other than the one dispatched last
\* before the burst, exactly one search was dispatched since the burst
\* began, for that final query.  Two keystrokes more than DEBOUNCE_MS apart
\* are two bursts, each with its own search.
C8_BurstDispatchesFinalQuery ==
    (/\ typing.phase = "settled"
     /\ typing.pure
     /\ search.search_query # << >>
     /\ search.search_query # typing.before)
        => typing.sent = <<search.search_query>>

\* The file of url is in cache_dir and its bytes do not decode.
Undecodable(files, url) ==
    \E i \in 1..Len(files) :
        files[i].name = url_to_filename(url) /\ files[i].data = Corrupt

\* C14: in every state of the cache, get_page of a url that is not in
\* memory and whose file cannot be read or does not decode returns None and
\* leaves pages and access_order as they are; insert_page whose disk write
\* fails (File::create or write_to) still puts the image in memory, and the
\* get_page of that url that follows returns it, from memory.
C14_DiskFailuresDegrade ==
    /\ \A url \in Urls \ DOMAIN pages : \A readOk \in BOOLEAN :
           (~readOk \/ Undecodable(disk, url)) =>
               LET g == GetPageResult(pages, access_order, disk, url, readOk)
               IN  /\ g.ret = NoImage
                   /\ g.pages = pages
                   /\ g.access_order = access_order
    /\ \A url \in Urls, image \in Images :
           \A outcome \in WriteOutcomes \ {"ok"}, readOk \in BOOLEAN :
               LET m == InsertPageResult(pages, access_order, disk, url,
                                         image, outcome, SmallFile, {}, {})
                   g == GetPageResult(m.pages, m.access_order, m.disk, url,
                                      readOk)
               IN  /\ url \in DOMAIN m.pages
                   /\ m.pages[url] = image
                   /\ g.ret = image
                   /\ g.from = "memory"
    /\ last.op = "get_page" /\ last.from = "miss" => last.ret = NoImage

C14_Witness ==
    /\ last.op = "get_page"
    /\ last.from = "miss"
    /\ Undecodable(disk, last.url)
    /\ last.url \notin DOMAIN pages

\* C12: every url that is put in preloading_pages when its preloader is
\* spawned is removed from the set later on; it does not stay pending for
\* the rest of the run.
C12_PendingKeyRemoved ==
    \A u \in Urls \cup {PagesOf(ShortChapter)[i] : i \in 1..3} :
        (u \in preloading_pages) ~> (u \notin preloading_pages)

\* C16: a step that clears the search query (Backspace on its last
\* character, or Esc with the header focused) leaves no debounce timer
\* pending and an empty result list, and dispatches no search.
C16_ClearingCancelsDebounce ==
    [][(search.search_query # << >> /\ search'.search_query = << >>) =>
           /\ search'.search_debounce = NoInstant
           /\ search'.search_results = << >>
           /\ SearchQueries(tasks' (-) tasks) = {}]_vars

\* What Enter does in the state s of the Search tab, followed by the
\* debounce check at the top of the loop, and by the check once the timer,
\* had it been left pending, has run out.
EnterDispatchesNow(s) ==
    LET k     == handle_search_tab_input(s, "Enter")
        top   == DebounceCheck(k.search)
        later == DebounceCheck([top.search EXCEPT !.search_debounce =
                     IF @ = NoInstant THEN @ ELSE DEBOUNCE_MS])
    IN  /\ k.spawned = Spawn("search", s.search_query)
        /\ top.spawned = EmptyBag
        /\ top.search.search_debounce = NoInstant
        /\ top.search.last_search_query = s.search_query
        /\ later.spawned = EmptyBag

\* C17: with the header focused and a non-empty query, Enter
\* dispatches a search for the query at once and clears the debounce, and
\* the timer dispatches no second search for it.
C17_EnterDispatches ==
    (SearchHeaderFocused /\ search.search_query # << >>) =>
        EnterDispatchesNow(search)

\* C11: Esc in the Reader sets the view to MangaDetail; Esc in MangaDetail
\* sets the view to Home and clears selected_manga and chapters; and when,
\* after a reading session was left for Home, a manga and then a chapter
\* are opened, open_reader leaves the reader with an empty page list, page
\* 0, no page image and no error.
C11_NoResidueAfterGoingBack ==
    [][/\ (nav'.key = "Esc" /\ view = "Reader") => view' = "MangaDetail"
       /\ (nav'.key = "Esc" /\ view = "MangaDetail") =>
              /\ view' = "Home"
              /\ app'.selected_manga = NoUrl
              /\ app'.chapters = << >>
       /\ (/\ nav'.key = "Enter" /\ nav.home
           /\ view = "MangaDetail" /\ view' = "Reader") =>
              /\ reader'.page_urls = << >>
              /\ reader'.current_page = 0
              /\ reader'.page_image = NoImage
              /\ reader'.error = NoError]_vars

\* Events of every kind the tasks of covers, chapter lists, thumbnails,
\* preloads and searches send.
QuietEvents ==
    {Event("CoverLoaded", Manga, CoverImage, << >>),
     Event("ChaptersLoaded", Manga, NoImage, MangaChapters),
     Event("ChaptersLoaded", Manga, NoImage, << >>),
     Event("ChapterThumbnailLoaded", FirstChapter, 1, << >>),
     Event("PagePreloaded", <<98>>, NoImage, << >>),
     Event("SearchResults", << >>, NoImage, << >>),
     Event("SearchResults", << >>, NoImage, <<Manga>>)}

\* C15: a step sets reader.error to a message only by consuming a
\* PageUrlsLoadFailed or a PageImageLoadFailed event; in every state the
\* handlers of the cover, chapter-list, thumbnail, preload and search events
\* leave reader.error as it is, and a step that sends one of the two
\* failure events is a step of a page list or a page image task, so the
\* tasks of the other kinds that fail send neither.
C15_ErrorOnlyFromLoadFailures ==
    /\ [][(reader'.error # reader.error /\ reader'.error # NoError) =>
              \/ Consumes("PageUrlsLoadFailed")
              \/ Consumes("PageImageLoadFailed")]_vars
    /\ [](\A ev \in QuietEvents : Handle(ev).reader.error = reader.error)
    /\ [][(/\ Len(chan') > Len(chan)
           /\ chan'[Len(chan')].kind \in {"PageUrlsLoadFailed",
                                          "PageImageLoadFailed"}) =>
              \E t \in BagToSet(tasks) :
                  /\ t.kind \in {"page_urls", "page_image"}
                  /\ CopiesIn(t, tasks') < CopiesIn(t, tasks)]_vars

C15_Witness ==
    /\ view = "Reader"
    /\ reader.error = PagesError
    /\ app.chapter_thumbnails = {}
    /\ preloading_pages # {}
    /\ tasks = EmptyBag /\ chan = << >>

\* C19: Enter in MangaDetail on an external chapter changes neither the
\* view nor the reader and spawns no task; on a chapter that is not
\* external it moves to the Reader at that chapter and spawns one
\* page_urls task for it, and nothing else.
C19_EnterOnChapter ==
    [][(/\ nav'.key = "Enter" /\ view = "MangaDetail"
        /\ HasIndex(app.chapters, app.chapter_selected)) =>
           LET chapter == app.chapters[app.chapter_selected + 1]
           IN  IF chapter.external
               THEN /\ view' = "MangaDetail"
                    /\ reader' = reader
                    /\ tasks' = tasks
               ELSE /\ view' = "Reader"
                    /\ reader'.current_chapter_idx = app.chapter_selected
                    /\ tasks' = tasks (+) Spawn("page_urls", chapter.id)]_vars

C19_Witness ==
    /\ nav.key = "Enter"
    /\ view = "MangaDetail"
    /\ HasIndex(app.chapters, app.chapter_selected)
    /\ app.chapters[app.chapter_selected + 1].external
    /\ reader.chapters # << >>

\* The key asks the Reader to move past the last or before the first page
\* or chapter.
AtBoundary(key) ==
    \/ key = "Right" /\ reader.current_page + 1 >= Len(reader.page_urls)
    \/ key = "Left" /\ reader.current_page = 0
    \/ key = "n" /\ reader.current_chapter_idx + 1 >= Len(reader.chapters)
    \/ key = "p" /\ reader.current_chapter_idx = 0

\* C18: in the Reader, next page on the last page, previous page on page 0,
\* next chapter on the last chapter and previous chapter on chapter 0
\* change nothing of the reader (indices, page list, page image, loading,
\* error), and spawn no task and mark no url as preloading.
C18_BoundaryMovesAreNoOps ==
    [][(view = "Reader" /\ AtBoundary(nav'.key)) =>
           /\ reader' = reader
           /\ tasks' = tasks
           /\ preloading_pages' = preloading_pages
           /\ view' = view]_vars

\* Right was pressed on the last page of a chapter whose image is shown,
\* and n on the last chapter.
C18_Witness ==
    \/ /\ nav.key = "Right"
       /\ reader.page_urls # << >>
       /\ reader.current_page + 1 = Len(reader.page_urls)
       /\ ~reader.loading /\ reader.page_image # NoImage
    \/ /\ nav.key = "n"
       /\ reader.current_chapter_idx + 1 = Len(reader.chapters)
       /\ ~reader.loading

\* C20: after the loop has consumed a PageUrlsLoaded event, reader.page_urls
\* is the page list of the chapter at reader.current_chapter_idx.
C20_PageListIsOfCurrentChapter ==
    [][Consumes("PageUrlsLoaded") =>
           /\ HasIndex(reader'.chapters, reader'.current_chapter_idx)
           /\ reader'.page_urls =
                  PagesOf(reader'.chapters[reader'.current_chapter_idx + 1].id)
      ]_vars

\* C13: no chapter has its page list returned by get_chapter_pages a second
\* time, unless the user asked for a retry in between.
C13_ResolvedAtMostOnce == nav.again = {}


\* The chapter list the API gives for a manga; nothing is selected: none.
ChaptersOf(manga) == IF manga = Manga THEN MangaChapters ELSE << >>

\* C21: whenever app.chapters is not empty, it is the chapter list of
\* app.selected_manga; a ChaptersLoaded event that arrives after the user
\* has left the manga it was fetched for is not stored.
C21_ChaptersAreOfSelectedManga ==
    app.chapters # << >> => app.chapters = ChaptersOf(app.selected_manga)


\* C22: get_page(u) returns no image that was inserted under another url:
\* when nothing was ever inserted under u, get_page(u) returns None (two
\* distinct urls share no cache file).
C22_GetPageOnlyOwnImage ==
    (last.op = "get_page" /\ last.ret # NoImage)
        => lastPut[last.url] # NoImage


\* C23: once DEBOUNCE_MS have passed since the last keystroke of a burst
\* that left a non-empty query other than the one dispatched last, a search
\* for that query is dispatched later on, unless another key is pressed
\* first.
C23_QuiescedQueryDispatched ==
    (/\ typing.phase = "settled"
     /\ typing.pure
     /\ search.search_query # << >>
     /\ search.search_query # search.last_search_query)
        ~> (\/ search.last_search_query = search.search_query
            \/ typing.phase # "settled"
            \/ ~typing.pure)


\* C24: a step removes a key from the memory map only when the url of the
\* call is not in the map and the map already holds MAX_MEMORY_PAGES
\* entries; inserting or promoting a url that is resident removes no key.
C24_EvictionOnlyOnOverflow ==
    [][(\E k \in DOMAIN pages : k \notin DOMAIN pages') =>
           /\ last'.url \notin DOMAIN pages
           /\ Cardinality(DOMAIN pages) >= MAX_MEMORY_PAGES]_vars


\* The preloaders the step spawns.
SpawnedPreloads ==
    {t \in BagToSet(tasks' (-) tasks) : t.kind = "preload" /\ t.pc = "start"}

\* No preloader is running and no PagePreloaded event waits in the channel.
NoPreloadLeft ==
    /\ PreloadKeys(tasks) = {}
    /\ \A i \in 1..Len(chan) : chan[i].kind # "PagePreloaded"

C26_NoPreloadOfCachedOrPending ==
    [][\A t \in SpawnedPreloads :
           /\ ~HasPage(pages, disk, t.key)
           /\ t.key \notin preloading_pages]_vars

\* The preloader t is at its start and takes the step.
StartsPreload(t) ==
    /\ t.kind = "preload" /\ t.pc = "start"
    /\ CopiesIn(t, tasks') < CopiesIn(t, tasks)

\* C26: the scheduler spawns no preloader for a url that is in
\* preloading_pages, and puts the url of every preloader it spawns there.
\* It does not look in the cache: the preloader does, and one that starts
\* on a url that is in memory or on disk fetches and writes nothing and
\* sends PagePreloaded at once.
C26_NoPreloadOfPending ==
    /\ [][\A t \in SpawnedPreloads :
              /\ t.key \notin preloading_pages
              /\ t.key \in preloading_pages']_vars
    /\ [][\A t \in BagToSet(tasks) :
              (StartsPreload(t) /\ HasPage(pages, disk, t.key)) =>
                  /\ tasks' = Remove(tasks, t)
                  /\ chan' = Append(chan, Event("PagePreloaded", t.key,
                                                NoImage, << >>))
                  /\ UNCHANGED cacheVars]_vars

\* A preloader that was spawned for a url of the cache has answered at once,
\* after the first preload of that url had been consumed.
C26_Witness ==
    /\ done.kind = "preload"
    /\ done.hit
    /\ chan # << >>
    /\ chan[Len(chan)].kind = "PagePreloaded"
    /\ chan[Len(chan)].key \in seen.preloaded


\* The indices of the channel that hold the PagePreloaded event of url.
PreloadedEvents(url) ==
    {i \in 1..Len(chan) : chan[i].kind = "PagePreloaded" /\ chan[i].key = url}

\* The preloaders of url that have not finished.
Preloaders(url) ==
    {t \in BagToSet(tasks) : t.kind = "preload" /\ t.key = url}

\* The preloads of url in flight: its running preloaders and its
\* PagePreloaded events that the loop has not consumed.
InFlight(url) ==
    BagCardinality([t \in Preloaders(url) |-> CopiesIn(t, tasks)])
        + Cardinality(PreloadedEvents(url))

\* C27: the url of every preloader that runs and of every PagePreloaded
\* event in the channel is in preloading_pages, and no url has more than
\* one preload in flight.
C27_OnePreloaderPerUrl ==
    \A url \in PreloadKeys(tasks)
               \cup {chan[i].key : i \in {j \in 1..Len(chan) :
                                          chan[j].kind = "PagePreloaded"}} :
        /\ url \in preloading_pages
        /\ InFlight(url) = 1

\* After the user has turned a page, a preloader is fetching one url while
\* the PagePreloaded event of another waits in the channel.
C27_Witness ==
    /\ reader.current_page > 0
    /\ \E t \in BagToSet(tasks) :
           /\ t.kind = "preload" /\ t.pc = "fetch"
           /\ \E i \in 1..Len(chan) :
                  chan[i].kind = "PagePreloaded" /\ chan[i].key # t.key


\* The searches in flight: the search tasks that have not finished and the
\* SearchResults events that the loop has not consumed.
SearchesInFlight ==
    BagCardinality([t \in {x \in BagToSet(tasks) : x.kind = "search"} |->
                        CopiesIn(t, tasks)])
        + Cardinality({i \in 1..Len(chan) : chan[i].kind = "SearchResults"})

\* C28: a search task ends by sending one SearchResults event, whatever the
\* API answered; searching holds exactly while one search is in flight, and
\* there is never more than one; and searching becomes false again.
C28_OneSearchAtATime ==
    /\ [](search.searching <=> SearchesInFlight = 1)
    /\ [](SearchesInFlight <= 1)
    /\ [][\A t \in BagToSet(tasks) :
              (t.kind = "search" /\ CopiesIn(t, tasks') < CopiesIn(t, tasks))
                  => /\ tasks' = Remove(tasks, t)
                     /\ Len(chan') = Len(chan) + 1
                     /\ SubSeq(chan', 1, Len(chan)) = chan
                     /\ chan'[Len(chan')].kind = "SearchResults"]_vars
    /\ search.searching ~> ~search.searching

\* A search whose request failed has answered with an empty list, and the
\* loop has consumed it.
C28_Witness ==
    /\ done.kind = "search"
    /\ ~done.fetched
    /\ ~search.searching
    /\ search.last_search_query # << >>
    /\ search.search_results = << >>
    /\ tasks = EmptyBag
    /\ chan = << >>


\* The task the retry key spawns: the page list of the current chapter when
\* no page list is there, else the image of the current page.
RetryTask ==
    IF reader.page_urls = << >>
    THEN Spawn("page_urls", reader.chapters[reader.current_chapter_idx + 1].id)
    ELSE Spawn("page_image", reader.page_urls[reader.current_page + 1])

Attempts(t) ==
    /\ t.kind = "page_image" /\ t.pc = "fetch"
    /\ CopiesIn(t, tasks') < CopiesIn(t, tasks)

\* C30: a page image loader has slept nothing before its first attempt,
\* 500 ms before its second and 500 + 1000 ms before its third.  An attempt
\* that fails is followed, when it was the first or the second, by the next
\* attempt on the same url after attempt x 500 ms more and without an
\* event, and when it was the third, by PageImageLoadFailed in the same
\* step, without a wait.
C30_LinearBackoff ==
    /\ [](\A t \in BagToSet(tasks) :
              t.kind = "page_image" =>
                  /\ t.attempt < MAX_RETRIES
                  /\ t.attempt = 0 => t.slept = 0
                  /\ t.attempt = 1 => t.slept = 500
                  /\ t.attempt = 2 => t.slept = 500 + 1000)
    /\ [][\A t \in BagToSet(tasks) :
              Attempts(t) =>
                  \/ /\ tasks' = Remove(tasks, t)
                     /\ chan' = Append(chan, Event("PageImageLoaded", t.key,
                                            PageImageOf(t.key), << >>))
                  \/ /\ t.attempt + 1 < MAX_RETRIES
                     /\ tasks' = Replace(tasks, t,
                            [t EXCEPT !.attempt = @ + 1,
                                      !.slept = @ + (t.attempt + 1) * 500])
                     /\ chan' = chan
                  \/ /\ t.attempt + 1 = MAX_RETRIES
                     /\ tasks' = Remove(tasks, t)
                     /\ chan' = Append(chan, Event("PageImageLoadFailed",
                                            t.key, NoImage, << >>))]_vars

\* The third attempt has failed after 1500 ms of waits and the failure
\* event is in the channel.
C30_Witness ==
    /\ done.kind = "page_image"
    /\ done.attempts = MAX_RETRIES
    /\ ~done.fetched
    /\ chan # << >>
    /\ chan[Len(chan)].kind = "PageImageLoadFailed"


\* The task waits for an answer of the network.
WaitsForNetwork(t) == t.pc \in {"fetch", "fetch_image"}

\* The task t takes the step.
StepsOn(t) == CopiesIn(t, tasks') < CopiesIn(t, tasks)

\* One step of the loader u, whatever the network answers.
LoaderStep(u) ==
    \/ \E answer \in PageAnswers(u.key) : PageUrlsLoader(u, answer)
    \/ \E fetched \in BOOLEAN : PageImageLoader(u, TRUE, fetched, "nocreate")
    \/ \E fetched \in BOOLEAN : PagePreloader(u, fetched, "nocreate")
    \/ \E fetched \in BOOLEAN :
           ThumbnailLoader(u, NoAnswer, TRUE, fetched, "nocreate")

\* C31: the cache lock is held only inside a cache call.  While a loader
\* waits for the network every other loader can take its step, cache calls
\* included; and the step in which a loader looks a key up in the cache
\* inserts nothing but a page it found on disk: the lookup before a fetch
\* and the insert after it are two steps, between which other tasks use
\* the cache.
C31_FetchOutsideLock ==
    /\ [](\A t \in BagToSet(tasks) : \A u \in BagToSet(tasks) :
              (WaitsForNetwork(t) /\ u # t) => ENABLED LoaderStep(u))
    /\ [][\A t \in BagToSet(tasks) :
              (StepsOn(t) /\ ~WaitsForNetwork(t)) =>
                  /\ chapter_urls' = chapter_urls
                  /\ disk' = disk
                  /\ \A k \in DOMAIN pages' \ DOMAIN pages :
                         HasPage(pages, disk, k)]_vars

\* A loader waits for the page list of a chapter that another task has put
\* in the cache since this loader looked it up.
C31_Witness ==
    \E t \in BagToSet(tasks) :
        /\ t.pc = "fetch"
        /\ Asked(t) # NoUrl
        /\ HasChapterUrls(chapter_urls, Asked(t))


\* The files the step deleted, and the files it kept, the one it wrote
\* left aside.
Deleted == FileNames(disk) \ FileNames(disk')
Kept == (FileNames(disk) \cap FileNames(disk')) \ {url_to_filename(last'.url)}

\* Every deleted file comes before every kept file in the order of the
\* modification times.
DeletedAreOldest ==
    \A i \in 1..Len(disk) : \A j \in 1..Len(disk) :
        (disk[i].name \in Deleted /\ disk[j].name \in Kept) => i < j

NextGetPage ==
    GetPageResult(pages', access_order', << >>, last'.url, FALSE)

\* C33: get_page looks in memory first and then on disk. A memory hit
\* returns the image of the map whatever the disk holds and leaves the map
\* and the disk alone; a disk hit for a url that is not in memory puts the
\* url in the map, at the price of the least recent entry when the map is
\* full, so that the next get_page of the url is a memory hit; a url in
\* neither tier gives a miss, and a miss changes nothing.
C33_GetPageTiers ==
    [][last'.op = "get_page" =>
          /\ last'.url \in DOMAIN pages =>
                 /\ last'.from = "memory"
                 /\ last'.ret = pages[last'.url]
                 /\ pages' = pages /\ disk' = disk
                 /\ \A files \in {disk, << >>} : \A readOk \in BOOLEAN :
                        GetPageResult(pages, access_order, files, last'.url,
                                      readOk).ret = last'.ret
          /\ last'.from = "disk" =>
                 /\ last'.url \notin DOMAIN pages
                 /\ last'.ret = LoadFromDisk(disk, last'.url, TRUE)
                 /\ last'.url \in DOMAIN pages'
                 /\ pages'[last'.url] = last'.ret
                 /\ disk' = disk
                 /\ IF Cardinality(DOMAIN pages) >= MAX_MEMORY_PAGES
                    THEN /\ last'.evicted = Head(access_order)
                         /\ DOMAIN pages' =
                                (DOMAIN pages \ {Head(access_order)})
                                    \cup {last'.url}
                    ELSE /\ last'.evicted = NoUrl
                         /\ DOMAIN pages' = DOMAIN pages \cup {last'.url}
                 /\ NextGetPage.from = "memory"
                 /\ NextGetPage.ret = last'.ret
          /\ ~HasPage(pages, disk, last'.url) => last'.from = "miss"
          /\ last'.from = "miss" =>
                 /\ last'.ret = NoImage
                 /\ pages' = pages
                 /\ access_order' = access_order
                 /\ disk' = disk]_vars

\* A get_page has been served from the disk into a full map, and the
\* url is in memory now.
C33_Witness ==
    /\ last.op = "get_page"
    /\ last.from = "disk"
    /\ last.evicted # NoUrl
    /\ last.url \in DOMAIN pages
    /\ Cardinality(DOMAIN pages) = MAX_MEMORY_PAGES


\* C34: after any sequence of get_page and insert_page calls, access_order
\* holds no url twice and its urls are exactly the keys of the memory map.
C34_AccessOrderMatchesPages ==
    /\ \A i \in 1..Len(access_order) : \A j \in 1..Len(access_order) :
           access_order[i] = access_order[j] => i = j
    /\ {access_order[i] : i \in 1..Len(access_order)} = DOMAIN pages

\* An insert_page of a url that the full map held already has evicted the
\* oldest entry.
C34_Witness ==
    /\ last.op = "insert_page"
    /\ last.evicted # NoUrl
    /\ Len(access_order) < MAX_MEMORY_PAGES
    /\ last.url \in DOMAIN pages


\* C35: whenever has_page(url) is true, a get_page(url) made next, with a
\* read of the file that succeeds, returns an image; a write that failed
\* part-way leaves no page that the cache reports and cannot serve.
C35_HasPageMeansServable ==
    \A url \in Urls :
        HasPage(pages, disk, url) =>
            GetPageResult(pages, access_order, disk, url, TRUE).ret # NoImage


\* The length of the file that the last insert_page wrote: the youngest
\* file of the directory, and nothing when File::create failed.
WrittenLen ==
    IF last.op = "insert_page" /\ last.from # "nocreate"
    THEN disk[Len(disk)].len ELSE 0

C37_CurrentPageInRange ==
    (view = "Reader" /\ reader.page_urls # << >>) =>
        reader.current_page < Len(reader.page_urls)


\* The page that was asked for has been answered: the flag is down and the
\* reader shows an image or an error message.
Settled ==
    /\ ~reader.loading
    /\ reader.page_image # NoImage \/ reader.error # NoError

\* C38: whenever reader.loading is true and the user presses no further
\* key, the flag becomes false later on, with a page image or an error
\* message set; every fetch returns.
C38_LoadingComesToAnEnd == (reader.loading /\ UserAway) ~> Settled


\* The debounce window expires in this step: the pending timer is taken
\* and the query is as it was.
WindowExpires ==
    /\ search.search_debounce # NoInstant
    /\ search'.search_debounce = NoInstant
    /\ search'.search_query = search.search_query

\* C39: when the query has been cleared, by Backspace or by Esc, since the
\* last search, and the query of that search has been typed again, the
\* expiry of the debounce window with no search in flight dispatches a
\* search for it.
C39_RetypedQuerySearchedAgain ==
    [][(/\ typing.cleared
        /\ search.search_query # << >>
        /\ search.search_query = typing.searched
        /\ ~search.searching
        /\ WindowExpires) =>
           Dispatched = <<search.search_query>>]_vars


\* C40: in the Search tab a character key press appends the character to
\* the query and arms the debounce timer, whatever the character, and the
\* event loop runs on after it: the sleep branch of its select can be taken.
C40_CharKeysOnlyType ==
    /\ [][Len(search'.search_query) > Len(search.search_query) =>
              /\ nav'.key \in CharKeys
              /\ search'.search_query =
                     Append(search.search_query, ByteOf(nav'.key))
              /\ search'.search_debounce = 0]_vars
    /\ [](nav.key \in CharKeys => ENABLED QuerySleep)

=============================================================================
